---- MODULE Spec2Model ----
(***************************************************************************)
(* devdash: the configuration engine (schema, defaults, loader, validator) *)
(* and the command-line start-up that feeds the resolved configuration to  *)
(* the panels; the task model (entity, migration, queries) and the tasks   *)
(* panel with its storage file and modals; the reload of the configuration *)
(* of a running application.                                               *)
(*                                                                         *)
(* A configuration value is a record [k, n, s]: k is the runtime type of   *)
(* the Python value, n its number (floats in tenths, booleans 0/1) and s   *)
(* its text.  A top-level value of a parsed document carries in addition   *)
(* the table t it holds when k = "table".                                  *)
(***************************************************************************)
EXTENDS Integers, Sequences, FiniteSets, TLC

VARIABLES fs, doc, op, arg, loaded, checked, app, panels,
          disk, tasks_file, tasks, selected_index, screen, posted, raised,
          today, call, returned,
          record, migrations, exported, exit_code, printed,
          timer, intervals, clock, refresh_timer, callbacks, mounted

\* the configuration engine and the application shell
cvars == <<fs, doc, arg, loaded, checked, app, panels>>
\* the tasks panel, its files and modals, and the task queries
tvars ==
  <<disk, tasks_file, tasks, selected_index, screen, posted, raised, today,
    call, returned>>
\* the migration of stored records, the export of the tasks, the process,
\* the timer panel, the refresh of the git and system panels
xvars ==
  <<record, migrations, exported, exit_code, printed, timer, intervals, clock,
    refresh_timer, callbacks, mounted>>
vars == <<cvars, op, tvars, xvars>>

(***************************************************************************)
(* Bounds                                                                  *)
(***************************************************************************)
\* number of entries written to the configuration document plus number of
\* candidate paths whose state differs from the initial file system
MaxEdits == 2

(***************************************************************************)
(* Values                                                                  *)
(***************************************************************************)
BoolV(b) == [k |-> "bool", n |-> IF b THEN 1 ELSE 0, s |-> ""]
IntV(i) == [k |-> "int", n |-> i, s |-> ""]
\* a finite float, given in tenths: FloatV(605) is 60.5
FloatV(tenths) == [k |-> "float", n |-> tenths, s |-> ""]
NaNV == [k |-> "nan", n |-> 0, s |-> ""]
StrV(str) == [k |-> "str", n |-> 0, s |-> str]
NullV == [k |-> "null", n |-> 0, s |-> ""]
\* an array of len (0 or 1) elements, the element being the string str
ArrayV(len, str) == [k |-> "array", n |-> len, s |-> str]

EmptyTable == [x \in {} |-> NullV]
TableV(tbl) == [k |-> "table", n |-> 0, s |-> "", t |-> tbl]
\* a top-level value that is not a table
ScalarV(v) == [k |-> v.k, n |-> v.n, s |-> v.s, t |-> EmptyTable]

\* Python numbers: bool is a subclass of int, nan is a float
NumKinds == {"bool", "int", "float", "nan"}
\* the number in tenths
Num(v) == IF v.k = "float" THEN v.n ELSE v.n * 10
\* Python's comparisons of numbers; every comparison with nan is false
Less(a, b) == a.k # "nan" /\ b.k # "nan" /\ Num(a) < Num(b)
Greater(a, b) == Less(b, a)
LessEq(a, b) == a.k # "nan" /\ b.k # "nan" /\ Num(a) <= Num(b)
GreaterEq(a, b) == LessEq(b, a)

(***************************************************************************)
(* Schema: declared type and default of every field                        *)
(***************************************************************************)
GeneralConfig ==
  [theme |-> StrV("default"), layout |-> StrV("default"),
   update_header |-> BoolV(TRUE)]

GeneralTypes ==
  [theme |-> "str", layout |-> "str", update_header |-> "bool"]

GitConfig ==
  [enabled |-> BoolV(TRUE), refresh_interval |-> IntV(5),
   max_commits |-> IntV(3), show_staged |-> BoolV(TRUE),
   show_modified |-> BoolV(TRUE), show_untracked |-> BoolV(TRUE),
   compact_mode |-> BoolV(FALSE), repository_path |-> NullV]

GitTypes ==
  [enabled |-> "bool", refresh_interval |-> "int", max_commits |-> "int",
   show_staged |-> "bool", show_modified |-> "bool",
   show_untracked |-> "bool", compact_mode |-> "bool",
   repository_path |-> "optional_str"]

SystemConfig ==
  [enabled |-> BoolV(TRUE), refresh_interval |-> IntV(1),
   show_cpu |-> BoolV(TRUE), show_ram |-> BoolV(TRUE),
   show_disk |-> BoolV(TRUE), show_uptime |-> BoolV(TRUE),
   show_load_avg |-> BoolV(TRUE),
   cpu_warning_threshold |-> FloatV(600),
   cpu_critical_threshold |-> FloatV(800),
   ram_warning_threshold |-> FloatV(600),
   ram_critical_threshold |-> FloatV(800),
   disk_warning_threshold |-> FloatV(600),
   disk_critical_threshold |-> FloatV(800),
   progress_bar_width |-> IntV(10), progress_bar_style |-> StrV("blocks")]

SystemTypes ==
  [enabled |-> "bool", refresh_interval |-> "int", show_cpu |-> "bool",
   show_ram |-> "bool", show_disk |-> "bool", show_uptime |-> "bool",
   show_load_avg |-> "bool", cpu_warning_threshold |-> "float",
   cpu_critical_threshold |-> "float", ram_warning_threshold |-> "float",
   ram_critical_threshold |-> "float", disk_warning_threshold |-> "float",
   disk_critical_threshold |-> "float", progress_bar_width |-> "int",
   progress_bar_style |-> "str"]

TasksConfig ==
  [enabled |-> BoolV(TRUE), file_path |-> StrV(".devdash_tasks.json"),
   default_sort |-> StrV("created"), show_completed |-> BoolV(TRUE),
   default_priority_filter |-> NullV, default_category_filter |-> NullV,
   max_visible_tasks |-> IntV(20), truncate_length |-> IntV(40),
   show_categories |-> BoolV(TRUE), show_due_dates |-> BoolV(TRUE),
   show_priority_emoji |-> BoolV(TRUE), due_soon_days |-> IntV(3),
   export_format |-> StrV("grouped")]

TasksTypes ==
  [enabled |-> "bool", file_path |-> "str", default_sort |-> "str",
   show_completed |-> "bool", default_priority_filter |-> "optional_str",
   default_category_filter |-> "optional_str", max_visible_tasks |-> "int",
   truncate_length |-> "int", show_categories |-> "bool",
   show_due_dates |-> "bool", show_priority_emoji |-> "bool",
   due_soon_days |-> "int", export_format |-> "str"]

TimerConfig ==
  [enabled |-> BoolV(TRUE), focus_duration |-> IntV(25),
   break_duration |-> IntV(5), long_break_duration |-> IntV(15),
   auto_start_break |-> BoolV(FALSE), notification_enabled |-> BoolV(FALSE),
   notification_sound |-> StrV("bell"), show_progress_bar |-> BoolV(TRUE),
   progress_bar_width |-> IntV(20)]

TimerTypes ==
  [enabled |-> "bool", focus_duration |-> "int", break_duration |-> "int",
   long_break_duration |-> "int", auto_start_break |-> "bool",
   notification_enabled |-> "bool", notification_sound |-> "str",
   show_progress_bar |-> "bool", progress_bar_width |-> "int"]

UIConfig ==
  [border_style |-> StrV("solid"), panel_padding |-> IntV(1),
   show_footer |-> BoolV(TRUE), show_header |-> BoolV(TRUE),
   compact_view |-> BoolV(FALSE)]

UITypes ==
  [border_style |-> "str", panel_padding |-> "int", show_footer |-> "bool",
   show_header |-> "bool", compact_view |-> "bool"]

KeybindingsConfig ==
  [quit |-> StrV("q"), help |-> StrV("?"), config |-> StrV("c"),
   refresh |-> StrV("r"), add_task |-> StrV("a"), edit_task |-> StrV("e"),
   toggle_task |-> StrV("space"), delete_task |-> StrV("d"),
   quick_priority |-> StrV("p"), filter_tasks |-> StrV("f"),
   sort_tasks |-> StrV("s"), export_tasks |-> StrV("x"),
   filter_high |-> StrV("1"), filter_medium |-> StrV("2"),
   filter_low |-> StrV("3"), clear_filters |-> StrV("0"),
   timer_focus |-> StrV("F"), timer_break |-> StrV("B"),
   timer_stop |-> StrV("S")]

KeybindingsTypes == [f \in DOMAIN KeybindingsConfig |-> "str"]

\* the root object: its sections, in declaration order
DevDashConfig ==
  <<"general", "git", "system", "tasks", "timer", "ui", "keybindings">>

Sections == {DevDashConfig[i] : i \in DOMAIN DevDashConfig}

SectionTypes ==
  [general |-> GeneralTypes, git |-> GitTypes, system |-> SystemTypes,
   tasks |-> TasksTypes, timer |-> TimerTypes, ui |-> UITypes,
   keybindings |-> KeybindingsTypes]

GetDefaultConfig ==
  [general |-> GeneralConfig, git |-> GitConfig, system |-> SystemConfig,
   tasks |-> TasksConfig, timer |-> TimerConfig, ui |-> UIConfig,
   keybindings |-> KeybindingsConfig]

Fields(sec) == DOMAIN SectionTypes[sec]

(***************************************************************************)
(* Loader                                                                  *)
(***************************************************************************)
NoConfig == [sec \in {} |-> EmptyTable]

\* _validate_type without the exclusion of booleans from the integers
ValidateTypeBoolIsInt(value, expected_type) ==
  CASE expected_type = "optional_str" ->
         IF value.k = "null" THEN TRUE ELSE value.k = "str"
    [] expected_type = "bool" -> value.k = "bool"
    [] expected_type = "int" -> value.k \in {"bool", "int"}
    [] expected_type = "float" -> value.k \in {"bool", "int", "float", "nan"}
    [] expected_type = "str" -> value.k = "str"
    [] OTHER -> FALSE

\* _validate_type: does the runtime type of value match the declared type
ValidateType(value, expected_type) ==
  CASE expected_type = "optional_str" ->
         IF value.k = "null" THEN TRUE ELSE value.k = "str"
    [] expected_type = "bool" -> value.k = "bool"
    [] expected_type = "int" -> value.k \in {"bool", "int"} /\ value.k # "bool"
    [] expected_type = "float" ->
         value.k \in {"bool", "int", "float", "nan"} /\ value.k # "bool"
    [] expected_type = "str" -> value.k = "str"
    [] OTHER -> FALSE

\* Python's `name in text` for the strings of the model: the top-level
\* strings written to a document hold a field name only by being equal to it
Substring(name, text) == name = text

\* `field_name in raw_section` where it does not raise
Contains(raw_section, field_name) ==
  CASE raw_section.k = "table" -> field_name \in DOMAIN raw_section.t
    [] raw_section.k = "str" -> Substring(field_name, raw_section.s)
    [] raw_section.k = "array" ->
         raw_section.n > 0 /\ raw_section.s = field_name
    [] OTHER -> FALSE

\* _merge_section that gives up the whole section when a field is missing
MergeSectionAllOrNothing(default_section, raw_section, section_type) ==
  LET section_fields == SectionTypes[section_type]
  IN IF raw_section.k \notin {"table", "str", "array"}
     THEN [exc |-> "TypeError", val |-> default_section]
     ELSE IF /\ raw_section.k # "table"
             /\ \E f \in DOMAIN section_fields : Contains(raw_section, f)
     THEN [exc |-> "TypeError", val |-> default_section]
     ELSE IF \E f \in DOMAIN section_fields : ~Contains(raw_section, f)
     THEN [exc |-> "none", val |-> default_section]
     ELSE [exc |-> "none",
           val |-> [f \in DOMAIN section_fields |->
                     IF ValidateType(raw_section.t[f], section_fields[f])
                     THEN raw_section.t[f]
                     ELSE default_section[f]]]

\* _merge_section that takes every supplied value without the type check
MergeSectionUnchecked(default_section, raw_section, section_type) ==
  LET section_fields == SectionTypes[section_type]
  IN IF raw_section.k \notin {"table", "str", "array"}
     THEN [exc |-> "TypeError", val |-> default_section]
     ELSE IF /\ raw_section.k # "table"
             /\ \E f \in DOMAIN section_fields : Contains(raw_section, f)
     THEN [exc |-> "TypeError", val |-> default_section]
     ELSE [exc |-> "none",
           val |-> [f \in DOMAIN section_fields |->
                     IF Contains(raw_section, f)
                     THEN raw_section.t[f]
                     ELSE default_section[f]]]

\* _merge_section: [exc, val].  A value that is not a container raises on
\* the membership test, a string or array that holds a field name raises on
\* the subscript; _validate_type is the only call inside the try.
MergeSection(default_section, raw_section, section_type) ==
  LET section_fields == SectionTypes[section_type]
  IN IF raw_section.k \notin {"table", "str", "array"}
     THEN [exc |-> "TypeError", val |-> default_section]
     ELSE IF /\ raw_section.k # "table"
             /\ \E f \in DOMAIN section_fields : Contains(raw_section, f)
     THEN [exc |-> "TypeError", val |-> default_section]
     ELSE [exc |-> "none",
           val |-> [f \in DOMAIN section_fields |->
                     IF Contains(raw_section, f)
                     THEN IF ValidateType(raw_section.t[f], section_fields[f])
                          THEN raw_section.t[f]
                          ELSE default_section[f]
                     ELSE default_section[f]]]

\* _merge_config: [exc, config]; an exception of a section propagates
MergeConfig(default_config, raw_config) ==
  LET merged == [sec \in Sections |->
                  IF sec \in DOMAIN raw_config
                  THEN MergeSection(default_config[sec], raw_config[sec], sec)
                  ELSE [exc |-> "none", val |-> default_config[sec]]]
  IN IF \E sec \in Sections : merged[sec].exc # "none"
     THEN [exc |-> "TypeError", config |-> NoConfig]
     ELSE [exc |-> "none", config |-> [sec \in Sections |-> merged[sec].val]]

\* the candidate paths of the discovery, in priority order, and the explicit
\* path of --config
Candidates == <<"cwd", "xdg", "home">>
Locations == {"cwd", "xdg", "home", "custom"}
FileStates == {"absent", "dir", "unreadable", "badsyntax", "ok"}

\* location.exists() and location.is_file()
IsFile(location) == fs[location] \in {"unreadable", "badsyntax", "ok"}

\* find_config_file that looks in the home directory before the user
\* configuration directory
FindConfigFileHomeFirst ==
  IF IsFile(Candidates[1]) THEN Candidates[1]
  ELSE IF IsFile(Candidates[3]) THEN Candidates[3]
  ELSE IF IsFile(Candidates[2]) THEN Candidates[2]
  ELSE "none"

\* find_config_file: the first candidate that is a file, or "none"
FindConfigFile ==
  IF IsFile(Candidates[1]) THEN Candidates[1]
  ELSE IF IsFile(Candidates[2]) THEN Candidates[2]
  ELSE IF IsFile(Candidates[3]) THEN Candidates[3]
  ELSE "none"

\* load_toml: [exc, msg, raw]
LoadToml(path) ==
  CASE fs[path] = "ok" -> [exc |-> "none", msg |-> "", raw |-> doc]
    [] fs[path] = "unreadable" ->
         [exc |-> "ConfigLoadError", msg |-> "permission denied",
          raw |-> NoConfig]
    [] fs[path] = "badsyntax" ->
         [exc |-> "ConfigLoadError", msg |-> "Invalid TOML syntax",
          raw |-> NoConfig]
    [] OTHER ->
         [exc |-> "ConfigLoadError", msg |-> "Failed to load config",
          raw |-> NoConfig]

\* load_config that answers a failed load with the defaults
LoadConfigSwallowing(custom_path) ==
  LET config == GetDefaultConfig
      discovery == custom_path = "none"
      config_path == IF custom_path # "none" THEN custom_path
                     ELSE FindConfigFile
  IN IF config_path = "none"
     THEN [exc |-> "none", msg |-> "", config |-> config, path |-> "none",
           discovery |-> discovery]
     ELSE LET raw_config == LoadToml(config_path)
          IN IF raw_config.exc # "none"
             THEN [exc |-> "none", msg |-> "", config |-> config,
                   path |-> config_path, discovery |-> discovery]
             ELSE LET merged == MergeConfig(config, raw_config.raw)
                  IN [exc |-> merged.exc, msg |-> "",
                      config |-> merged.config, path |-> config_path,
                      discovery |-> discovery]

\* load_config: [exc, msg, config, path, discovery]; path is the file that
\* was opened, discovery tells whether find_config_file ran
LoadConfig(custom_path) ==
  LET config == GetDefaultConfig
      discovery == custom_path = "none"
      config_path == IF custom_path # "none" THEN custom_path
                     ELSE FindConfigFile
  IN IF config_path = "none"
     THEN [exc |-> "none", msg |-> "", config |-> config, path |-> "none",
           discovery |-> discovery]
     ELSE LET raw_config == LoadToml(config_path)
          IN IF raw_config.exc # "none"
             THEN [exc |-> raw_config.exc, msg |-> raw_config.msg,
                   config |-> NoConfig, path |-> config_path,
                   discovery |-> discovery]
             ELSE LET merged == MergeConfig(config, raw_config.raw)
                  IN [exc |-> merged.exc, msg |-> "",
                      config |-> merged.config, path |-> config_path,
                      discovery |-> discovery]

(***************************************************************************)
(* Validator                                                               *)
(***************************************************************************)
NoDefault == [k |-> "none", n |-> 0, s |-> ""]

\* a warning message: the fields it names, its wording, the offending
\* values it prints and the default it announces ("using default: ...")
Warn(names, text, got, dflt) ==
  [names |-> names, text |-> text, got |-> got, dflt |-> dflt]

When(cond, warning) == IF cond THEN <<warning>> ELSE <<>>

ValidateGit(config) ==
  When(Less(config.refresh_interval, IntV(1)),
       Warn({<<"git", "refresh_interval">>}, "must be >= 1",
            <<config.refresh_interval>>, IntV(5)))
  \o When(Greater(config.refresh_interval, IntV(3600)),
          Warn({<<"git", "refresh_interval">>}, "is very large",
               <<config.refresh_interval>>, NoDefault))
  \o When(\/ Less(config.max_commits, IntV(0))
          \/ Greater(config.max_commits, IntV(20)),
          Warn({<<"git", "max_commits">>}, "should be 0-20",
               <<config.max_commits>>, IntV(3)))

threshold_fields ==
  <<<<"cpu_warning_threshold", "cpu_critical_threshold">>,
    <<"ram_warning_threshold", "ram_critical_threshold">>,
    <<"disk_warning_threshold", "disk_critical_threshold">>>>

\* the loop body with the comparison of the pair turned round
ValidateThresholdsReversed(config, warning_field, critical_field) ==
  LET warning_val == config[warning_field]
      critical_val == config[critical_field]
  IN When(~(LessEq(IntV(0), warning_val) /\ LessEq(warning_val, IntV(100))),
          Warn({<<"system", warning_field>>}, "must be 0-100",
               <<warning_val>>, IntV(60)))
     \o When(~(LessEq(IntV(0), critical_val)
               /\ LessEq(critical_val, IntV(100))),
             Warn({<<"system", critical_field>>}, "must be 0-100",
                  <<critical_val>>, IntV(80)))
     \o When(LessEq(warning_val, critical_val),
             Warn({<<"system", warning_field>>, <<"system", critical_field>>},
                  "should be less than", <<warning_val, critical_val>>,
                  NoDefault))

\* the loop body with the comparison of the pair as the last elif of the
\* range checks
ValidateThresholdsElif(config, warning_field, critical_field) ==
  LET warning_val == config[warning_field]
      critical_val == config[critical_field]
  IN IF ~(LessEq(IntV(0), warning_val) /\ LessEq(warning_val, IntV(100)))
     THEN <<Warn({<<"system", warning_field>>}, "must be 0-100",
                 <<warning_val>>, IntV(60))>>
     ELSE IF ~(LessEq(IntV(0), critical_val)
               /\ LessEq(critical_val, IntV(100)))
     THEN <<Warn({<<"system", critical_field>>}, "must be 0-100",
                 <<critical_val>>, IntV(80))>>
     ELSE When(GreaterEq(warning_val, critical_val),
               Warn({<<"system", warning_field>>,
                     <<"system", critical_field>>},
                    "should be less than", <<warning_val, critical_val>>,
                    NoDefault))

\* one iteration of the loop over threshold_fields
ValidateThresholds(config, warning_field, critical_field) ==
  LET warning_val == config[warning_field]
      critical_val == config[critical_field]
  IN When(~(LessEq(IntV(0), warning_val) /\ LessEq(warning_val, IntV(100))),
          Warn({<<"system", warning_field>>}, "must be 0-100",
               <<warning_val>>, IntV(60)))
     \o When(~(LessEq(IntV(0), critical_val)
               /\ LessEq(critical_val, IntV(100))),
             Warn({<<"system", critical_field>>}, "must be 0-100",
                  <<critical_val>>, IntV(80)))
     \o When(GreaterEq(warning_val, critical_val),
             Warn({<<"system", warning_field>>, <<"system", critical_field>>},
                  "should be less than", <<warning_val, critical_val>>,
                  NoDefault))

ValidateSystem(config) ==
  When(Less(config.refresh_interval, FloatV(5)),
       Warn({<<"system", "refresh_interval">>}, "must be >= 0.5",
            <<config.refresh_interval>>, IntV(1)))
  \o When(Greater(config.refresh_interval, IntV(60)),
          Warn({<<"system", "refresh_interval">>}, "is very large",
               <<config.refresh_interval>>, NoDefault))
  \o ValidateThresholds(config, threshold_fields[1][1], threshold_fields[1][2])
  \o ValidateThresholds(config, threshold_fields[2][1], threshold_fields[2][2])
  \o ValidateThresholds(config, threshold_fields[3][1], threshold_fields[3][2])
  \o When(\/ Less(config.progress_bar_width, IntV(5))
          \/ Greater(config.progress_bar_width, IntV(50)),
          Warn({<<"system", "progress_bar_width">>}, "should be 5-50",
               <<config.progress_bar_width>>, IntV(10)))
  \o When(config.progress_bar_style
            \notin {StrV("blocks"), StrV("bars"), StrV("dots")},
          Warn({<<"system", "progress_bar_style">>}, "must be one of",
               <<config.progress_bar_style>>, StrV("blocks")))

ValidateTasks(config) ==
  When(config.default_sort
         \notin {StrV("created"), StrV("priority"), StrV("due_date"),
                 StrV("text")},
       Warn({<<"tasks", "default_sort">>}, "must be one of",
            <<config.default_sort>>, StrV("created")))
  \o When(/\ config.default_priority_filter # NullV
          /\ config.default_priority_filter
               \notin {StrV("high"), StrV("medium"), StrV("low")},
          Warn({<<"tasks", "default_priority_filter">>},
               "must be one of or null",
               <<config.default_priority_filter>>, NullV))
  \o When(\/ Less(config.max_visible_tasks, IntV(1))
          \/ Greater(config.max_visible_tasks, IntV(100)),
          Warn({<<"tasks", "max_visible_tasks">>}, "should be 1-100",
               <<config.max_visible_tasks>>, IntV(20)))
  \o When(\/ Less(config.truncate_length, IntV(20))
          \/ Greater(config.truncate_length, IntV(200)),
          Warn({<<"tasks", "truncate_length">>}, "should be 20-200",
               <<config.truncate_length>>, IntV(40)))
  \o When(\/ Less(config.due_soon_days, IntV(1))
          \/ Greater(config.due_soon_days, IntV(30)),
          Warn({<<"tasks", "due_soon_days">>}, "should be 1-30",
               <<config.due_soon_days>>, IntV(3)))
  \o When(config.export_format
            \notin {StrV("grouped"), StrV("simple"), StrV("detailed")},
          Warn({<<"tasks", "export_format">>}, "must be one of",
               <<config.export_format>>, StrV("grouped")))

ValidateTimer(config) ==
  When(\/ Less(config.focus_duration, IntV(1))
       \/ Greater(config.focus_duration, IntV(240)),
       Warn({<<"timer", "focus_duration">>}, "should be 1-240 minutes",
            <<config.focus_duration>>, IntV(25)))
  \o When(\/ Less(config.break_duration, IntV(1))
          \/ Greater(config.break_duration, IntV(60)),
          Warn({<<"timer", "break_duration">>}, "should be 1-60 minutes",
               <<config.break_duration>>, IntV(5)))
  \o When(\/ Less(config.long_break_duration, IntV(1))
          \/ Greater(config.long_break_duration, IntV(120)),
          Warn({<<"timer", "long_break_duration">>},
               "should be 1-120 minutes",
               <<config.long_break_duration>>, IntV(15)))
  \o When(\/ Less(config.progress_bar_width, IntV(10))
          \/ Greater(config.progress_bar_width, IntV(60)),
          Warn({<<"timer", "progress_bar_width">>}, "should be 10-60",
               <<config.progress_bar_width>>, IntV(20)))
  \o When(config.notification_sound
            \notin {StrV("bell"), StrV("chime"), StrV("silent")},
          Warn({<<"timer", "notification_sound">>}, "must be one of",
               <<config.notification_sound>>, StrV("bell")))

ValidateUI(config) ==
  When(config.border_style
         \notin {StrV("solid"), StrV("double"), StrV("rounded"),
                 StrV("heavy"), StrV("none")},
       Warn({<<"ui", "border_style">>}, "must be one of",
            <<config.border_style>>, StrV("solid")))
  \o When(\/ Less(config.panel_padding, IntV(0))
          \/ Greater(config.panel_padding, IntV(5)),
          Warn({<<"ui", "panel_padding">>}, "should be 0-5",
               <<config.panel_padding>>, IntV(1)))

\* the fields the validator compares with numbers: Python raises TypeError
\* when such a field does not hold a number
Compared ==
  [general |-> {},
   git |-> {"refresh_interval", "max_commits"},
   system |-> {"refresh_interval", "cpu_warning_threshold",
               "cpu_critical_threshold", "ram_warning_threshold",
               "ram_critical_threshold", "disk_warning_threshold",
               "disk_critical_threshold", "progress_bar_width"},
   tasks |-> {"max_visible_tasks", "truncate_length", "due_soon_days"},
   timer |-> {"focus_duration", "break_duration", "long_break_duration",
              "progress_bar_width"},
   ui |-> {"panel_padding"},
   keybindings |-> {}]

\* validate_config: [exc, warnings], the warnings in section order
ValidateConfig(config) ==
  IF \E sec \in Sections : \E f \in Compared[sec] :
       config[sec][f].k \notin NumKinds
  THEN [exc |-> "TypeError", warnings |-> <<>>]
  ELSE [exc |-> "none",
        warnings |-> ValidateGit(config.git) \o ValidateSystem(config.system)
                     \o ValidateTasks(config.tasks)
                     \o ValidateTimer(config.timer)
                     \o ValidateUI(config.ui)]

(***************************************************************************)
(* Task model (task_model.py)                                              *)
(* A task is a record [id, text, done, priority, due_date, categories,     *)
(* created_at].  priority, due_date and created_at are values [k, n, s]:   *)
(* None is NullV, IsoDate(d) is the text "YYYY-MM-DD" of the day d and     *)
(* IsoTime(i) the text datetime.isoformat() gives at the instant i (day i, *)
(* i >= 1); texts of one shape order as their numbers do.  Any other text  *)
(* is no ISO text.  A dictionary is a function from some of the keys; its  *)
(* categories are [k, items], k = "list" for a list.                       *)
(***************************************************************************)
IsoDate(d) == [k |-> "str", n |-> d, s |-> "YYYY-MM-DD"]
IsoTime(i) == [k |-> "str", n |-> i, s |-> "YYYY-MM-DDTHH:MM:SS"]
ListV(items) == [k |-> "list", items |-> items]

\* class Priority
Priority == {StrV("high"), StrV("medium"), StrV("low")}

\* datetime.fromisoformat(text): ValueError for a text that is no ISO text,
\* TypeError for a value that is no text; date is the day of the result
FromIsoFormat(value) ==
  IF value.k # "str" THEN [exc |-> "TypeError", date |-> 0]
  ELSE IF value.s \notin {IsoDate(0).s, IsoTime(0).s}
  THEN [exc |-> "ValueError", date |-> 0]
  ELSE [exc |-> "none", date |-> value.n]

NoTask ==
  [id |-> 0, text |-> "", done |-> FALSE, priority |-> NullV,
   due_date |-> NullV, categories |-> <<>>, created_at |-> NullV]

\* Task(...) that keeps whatever priority and due date it is given
TaskUnvalidated(id, text, done, priority, due_date, categories, created_at, now) ==
  [exc |-> "none",
   task |-> [id |-> id, text |-> text, done |-> done,
             priority |-> priority, due_date |-> due_date,
             categories |->
               IF categories.k = "list" THEN categories.items ELSE <<>>,
             created_at |->
               IF created_at = NullV THEN IsoTime(now) ELSE created_at]]

\* Task(...): the dataclass constructor followed by __post_init__, at the
\* instant now
Task(id, text, done, priority, due_date, categories, created_at, now) ==
  IF priority # NullV /\ priority \notin Priority
  THEN [exc |-> "ValueError", task |-> NoTask]
  ELSE IF due_date # NullV /\ FromIsoFormat(due_date).exc # "none"
  THEN [exc |-> "ValueError", task |-> NoTask]
  ELSE [exc |-> "none",
        task |-> [id |-> id, text |-> text, done |-> done,
                  priority |-> priority, due_date |-> due_date,
                  categories |->
                    IF categories.k = "list" THEN categories.items
                    ELSE <<>>,
                  created_at |->
                    IF created_at = NullV THEN IsoTime(now)
                    ELSE created_at]]

\* dict.get(key, default)
Get(data, key, default) == IF key \in DOMAIN data THEN data[key] ELSE default

\* Task.to_dict
to_dict(task) ==
  [id |-> task.id, text |-> task.text, done |-> task.done,
   priority |-> task.priority, due_date |-> task.due_date,
   categories |-> ListV(task.categories), created_at |-> task.created_at]

\* Task.from_dict
from_dict(data, now) ==
  Task(Get(data, "id", 0), Get(data, "text", ""), Get(data, "done", FALSE),
       Get(data, "priority", NullV), Get(data, "due_date", NullV),
       Get(data, "categories", ListV(<<>>)), Get(data, "created_at", NullV),
       now)

\* Task.is_overdue, date.today() being today
is_overdue(task, today_) ==
  IF task.due_date = NullV \/ task.done THEN FALSE
  ELSE IF FromIsoFormat(task.due_date).exc # "none" THEN FALSE
  ELSE FromIsoFormat(task.due_date).date < today_

\* Task.is_due_soon that answers for every date up to the window
is_due_soonUpTo(task, days, today_) ==
  IF task.due_date = NullV \/ task.done THEN FALSE
  ELSE IF FromIsoFormat(task.due_date).exc # "none" THEN FALSE
  ELSE FromIsoFormat(task.due_date).date - today_ <= days

\* Task.is_due_soon
is_due_soon(task, days, today_) ==
  IF task.due_date = NullV \/ task.done THEN FALSE
  ELSE IF FromIsoFormat(task.due_date).exc # "none" THEN FALSE
  ELSE LET due == FromIsoFormat(task.due_date).date
       IN IF due < today_ THEN FALSE
          ELSE due - today_ <= days

\* str.lower
Lower(str) ==
  CASE str = "Work" -> "work"
    [] str = "WORK" -> "work"
    [] str = "B" -> "b"
    [] OTHER -> str

\* Task.has_category
has_category(task, category) ==
  \E i \in DOMAIN task.categories :
    Lower(task.categories[i]) = Lower(category)

\* Task.matches_priority
matches_priority(task, priority) == task.priority = priority

\* migrate_legacy_task that stamps every record with the current instant
migrate_legacy_taskStamped(old_task, now) ==
  [id |-> Get(old_task, "id", 0),
   text |-> Get(old_task, "text", ""),
   done |-> Get(old_task, "done", FALSE),
   priority |-> Get(old_task, "priority", NullV),
   due_date |-> Get(old_task, "due_date", NullV),
   categories |-> Get(old_task, "categories", ListV(<<>>)),
   created_at |-> IsoTime(now)]

\* migrate_legacy_task on a dictionary
migrate_legacy_task(old_task, now) ==
  [id |-> Get(old_task, "id", 0),
   text |-> Get(old_task, "text", ""),
   done |-> Get(old_task, "done", FALSE),
   priority |-> Get(old_task, "priority", NullV),
   due_date |-> Get(old_task, "due_date", NullV),
   categories |-> Get(old_task, "categories", ListV(<<>>)),
   created_at |-> Get(old_task, "created_at", IsoTime(now))]

\* migrate_task_list on a parsed JSON value [k, items], every item [k, d]:
\* iterating a number is a TypeError, .get on an item that is no dictionary
\* an AttributeError
migrate_task_list(value, now) ==
  IF value.k # "array" THEN [exc |-> "TypeError", val |-> <<>>]
  ELSE IF \E i \in DOMAIN value.items : value.items[i].k # "object"
  THEN [exc |-> "AttributeError", val |-> <<>>]
  ELSE [exc |-> "none",
        val |-> [i \in DOMAIN value.items |->
                  migrate_legacy_task(value.items[i].d, now)]]

\* the place of a text among the task texts in lexicographic order
TextRank(str) ==
  CASE str = "" -> 0
    [] str = "a" -> 1
    [] str = "b" -> 2
    [] OTHER -> 3

\* `text or ""` as a number: the empty text sorts before every ISO text
IsoRank(value) == IF value = NullV \/ value.s = "" THEN 0 ELSE value.n

\* the "9999-12-31" that stands in for a missing due date
LastDay == 9999

\* the key of sorted() in every branch of sort_tasks, as a pair
SortKey(t, sort_by) ==
  IF sort_by = "priority"
  THEN <<CASE t.priority = StrV("high") -> 0
           [] t.priority = StrV("medium") -> 1
           [] t.priority = StrV("low") -> 2
           [] OTHER -> 3,
         IsoRank(t.created_at)>>
  ELSE IF sort_by = "due_date"
  THEN <<IF t.due_date = NullV THEN 1 ELSE 0,
         IF t.due_date = NullV THEN LastDay ELSE IsoRank(t.due_date)>>
  ELSE IF sort_by = "text"
  THEN <<TextRank(Lower(t.text)), 0>>
  ELSE <<IsoRank(t.created_at), 0>>

\* Python's order of tuples
TupleLessEq(a, b) == a[1] < b[1] \/ (a[1] = b[1] /\ a[2] <= b[2])

\* sort_tasks that orders by the first component of the key alone
RECURSIVE sort_tasksFirstKey(_, _)
sort_tasksFirstKey(tasks_, sort_by) ==
  IF tasks_ = <<>> THEN <<>>
  ELSE LET head == sort_tasksFirstKey(SubSeq(tasks_, 1, Len(tasks_) - 1),
                                      sort_by)
           t == tasks_[Len(tasks_)]
           n == Cardinality({i \in DOMAIN head :
                  SortKey(head[i], sort_by)[1] <= SortKey(t, sort_by)[1]})
       IN SubSeq(head, 1, n) \o <<t>> \o SubSeq(head, n + 1, Len(head))

\* sort_tasks: sorted() is stable, so every task comes after the tasks
\* before it in the input whose key is not greater
RECURSIVE sort_tasks(_, _)
sort_tasks(tasks_, sort_by) ==
  IF tasks_ = <<>> THEN <<>>
  ELSE LET head == sort_tasks(SubSeq(tasks_, 1, Len(tasks_) - 1), sort_by)
           t == tasks_[Len(tasks_)]
           n == Cardinality({i \in DOMAIN head :
                  TupleLessEq(SortKey(head[i], sort_by),
                              SortKey(t, sort_by))})
       IN SubSeq(head, 1, n) \o <<t>> \o SubSeq(head, n + 1, Len(head))

\* filter_tasks that lets a task through when it meets one criterion
filter_tasksAny(tasks_, priority, category, show_done) ==
  IF show_done /\ priority = NullV /\ category = NullV THEN tasks_
  ELSE SelectSeq(tasks_, LAMBDA t :
         \/ ~show_done /\ ~t.done
         \/ priority # NullV /\ matches_priority(t, priority)
         \/ category # NullV /\ has_category(t, category.s))

\* filter_tasks
filter_tasks(tasks_, priority, category, show_done) ==
  LET filtered1 == IF ~show_done
                   THEN SelectSeq(tasks_, LAMBDA t : ~t.done)
                   ELSE tasks_
      filtered2 == IF priority # NullV
                   THEN SelectSeq(filtered1,
                                  LAMBDA t : matches_priority(t, priority))
                   ELSE filtered1
      filtered3 == IF category # NullV
                   THEN SelectSeq(filtered2,
                                  LAMBDA t : has_category(t, category.s))
                   ELSE filtered2
  IN filtered3

(***************************************************************************)
(* Task export (task_export.py)                                            *)
(* The Markdown content is the sequence of its lines.  A line is a record  *)
(* [kind, text, n, m, done, mark, due_date, categories]: kind tells which  *)
(* f-string built it, the other fields are the values it formats.  The     *)
(* emoji of a section title and of a due date are named by words.          *)
(***************************************************************************)
Line(kind, text, n, m) ==
  [kind |-> kind, text |-> text, n |-> n, m |-> m, done |-> FALSE,
   mark |-> "", due_date |-> NullV, categories |-> <<>>]

\* Task.get_due_date_indicator, is_due_soon with its default of 3 days
get_due_date_indicator(task, today_) ==
  IF task.due_date = NullV THEN ""
  ELSE IF is_overdue(task, today_) THEN "overdue"
  ELSE IF is_due_soon(task, 3, today_) THEN "due soon"
  ELSE "due later"

\* number of tasks of a sequence that are done
Completed(tasks_) == Cardinality({i \in DOMAIN tasks_ : tasks_[i].done})

\* the eight lines every layout starts with
HeaderLines(tasks_, title, now) ==
  <<Line("title", title, 0, 0), Line("blank", "", 0, 0),
    Line("exported", "", now, 0), Line("blank", "", 0, 0),
    Line("totals", "", Len(tasks_), Completed(tasks_)),
    Line("blank", "", 0, 0), Line("rule", "---", 0, 0),
    Line("blank", "", 0, 0)>>

\* the line "- [x] text due categories" of a task in a priority section
GroupedTaskLine(task, today_) ==
  [kind |-> "task", text |-> task.text, n |-> 0, m |-> 0,
   done |-> task.done,
   mark |-> IF task.due_date # NullV /\ task.due_date.s # ""
            THEN get_due_date_indicator(task, today_) ELSE "",
   due_date |-> IF task.due_date # NullV /\ task.due_date.s # ""
                THEN task.due_date ELSE NullV,
   categories |-> task.categories]

\* the key (t.done, t.due_date or "9999-12-31") of a priority section
GroupKey(t) ==
  <<IF t.done THEN 1 ELSE 0,
    IF t.due_date = NullV \/ t.due_date.s = "" THEN LastDay
    ELSE IsoRank(t.due_date)>>

\* sorted(group_tasks, key=...), stable
RECURSIVE SortedGroup(_)
SortedGroup(group_tasks) ==
  IF group_tasks = <<>> THEN <<>>
  ELSE LET head == SortedGroup(SubSeq(group_tasks, 1, Len(group_tasks) - 1))
           t == group_tasks[Len(group_tasks)]
           n == Cardinality({i \in DOMAIN head :
                  TupleLessEq(GroupKey(head[i]), GroupKey(t))})
       IN SubSeq(head, 1, n) \o <<t>> \o SubSeq(head, n + 1, Len(head))

\* priority_sections: the keys in their fixed order, and their titles
PrioritySections == <<StrV("high"), StrV("medium"), StrV("low"), NullV>>

SectionTitle(priority_key) ==
  CASE priority_key = StrV("high") -> "High Priority"
    [] priority_key = StrV("medium") -> "Medium Priority"
    [] priority_key = StrV("low") -> "Low Priority"
    [] OTHER -> "No Priority"

\* the lines of one priority section, with its header
SectionLines(group_tasks, priority_key, today_) ==
  <<Line("section", SectionTitle(priority_key), 0, 0),
    Line("blank", "", 0, 0),
    Line("counts", "", Len(group_tasks), Completed(group_tasks)),
    Line("blank", "", 0, 0)>>
  \o [i \in DOMAIN group_tasks |->
        GroupedTaskLine(SortedGroup(group_tasks)[i], today_)]
  \o <<Line("blank", "", 0, 0)>>

\* _export_grouped_by_priority that writes the four sections, empty or not
RECURSIVE ExportSectionsAll(_, _, _)
ExportSectionsAll(tasks_, from, today_) ==
  IF from > Len(PrioritySections) THEN <<>>
  ELSE LET priority_key == PrioritySections[from]
           group_tasks ==
             SelectSeq(tasks_, LAMBDA t : t.priority = priority_key)
       IN SectionLines(group_tasks, priority_key, today_)
            \o ExportSectionsAll(tasks_, from + 1, today_)

\* the loop over priority_sections from the section `from` on: a section
\* whose group is empty is skipped
RECURSIVE ExportSections(_, _, _)
ExportSections(tasks_, from, today_) ==
  IF from > Len(PrioritySections) THEN <<>>
  ELSE LET priority_key == PrioritySections[from]
           group_tasks ==
             SelectSeq(tasks_, LAMBDA t : t.priority = priority_key)
       IN (IF group_tasks = <<>> THEN <<>>
           ELSE SectionLines(group_tasks, priority_key, today_))
            \o ExportSections(tasks_, from + 1, today_)

\* _export_grouped_by_priority: a task whose priority is no key of
\* priority_groups is a KeyError
export_grouped_by_priority(tasks_, title, today_) ==
  IF \E i \in DOMAIN tasks_ :
       tasks_[i].priority # NullV /\ tasks_[i].priority \notin Priority
  THEN [exc |-> "KeyError", content |-> <<>>]
  ELSE [exc |-> "none",
        content |-> HeaderLines(tasks_, title, today_)
                      \o ExportSections(tasks_, 1, today_)]

(***************************************************************************)
(* State                                                                   *)
(*   fs       state of the file at each candidate path and at the explicit *)
(*            path; a file in state "ok" parses to doc                     *)
(*   doc      the parsed document (raw_config)                             *)
(*   op, arg  the operation that ran and its custom path ("none": absent)  *)
(*   loaded   what load_config / _merge_config produced                    *)
(*   checked  what validate_config produced                                *)
(*   app      the application object, panels its four panels               *)
(*   disk     the task storage files: [exists, writable, content], the     *)
(*            content a JSON value [k, items] ("invalid": no JSON text)    *)
(*   tasks_file, tasks, selected_index   the fields of the tasks panel     *)
(*   screen   the modal on top of the screen stack                         *)
(*   posted   the message posted by the modal that was opened last         *)
(*   raised   the exception that left the last handler ("none": none)      *)
(*   today    date.today(); datetime.now() is the instant of that day      *)
(*   call, returned   the last query of the task model and its result      *)
(*   record, migrations   a stored record and its successive migrations    *)
(*   exported the lines of the last Markdown export                        *)
(*   exit_code, printed   what the process returned and printed            *)
(*   timer    the session fields of the timer panel                        *)
(*   intervals   the handles of the registered periodic callbacks          *)
(*   clock    time.time(), in seconds                                      *)
(*   refresh_timer   the interval handle the git panel keeps (0: None)     *)
(*   callbacks   the registered periodic refresh callbacks:                *)
(*            [owner, handle, interval]                                    *)
(*   mounted  the panels whose on_mount has run                            *)
(***************************************************************************)
InitFs == [l \in Locations |-> IF l = "cwd" THEN "ok" ELSE "absent"]
EmptyDoc == [sec \in {} |-> TableV(EmptyTable)]
NoPanels == [p \in {} |-> EmptyTable]

NotLoaded ==
  [exc |-> "none", msg |-> "", config |-> NoConfig, path |-> "none",
   discovery |-> FALSE]
NotChecked == [done |-> FALSE, exc |-> "none", warnings |-> <<>>]
NotStarted == [state |-> "not_started", config |-> NoConfig]

\* the paths the tasks panel is configured with
TaskPaths == {TasksConfig.file_path.s, "work.json"}
NoJson == [k |-> "invalid", items |-> <<>>]
NoFile == [exists |-> FALSE, writable |-> TRUE, content |-> NoJson]
NoScreen == [name |-> "none", task_id |-> 0, is_new |-> FALSE,
             task |-> NoTask]
\* None where a message is expected
None == [name |-> "None", task_data |-> to_dict(NoTask), priority |-> NullV]
NoCall == [name |-> "none", index |-> 0, priority |-> NullV,
           category |-> NullV, show_done |-> TRUE, sort_by |-> "",
           days |-> 0]
NoReturn == [bool |-> FALSE, tasks |-> <<>>]

\* the tasks panel before the application is composed, no query made
InitTasks ==
  /\ disk = [path \in TaskPaths |-> NoFile]
  /\ tasks_file = TasksConfig.file_path.s
  /\ tasks = <<>>
  /\ selected_index = 0
  /\ screen = NoScreen
  /\ posted = None
  /\ raised = "none"
  /\ today = 1
  /\ call = NoCall
  /\ returned = NoReturn

\* what the timer panel shows when it shows nothing
NoContent ==
  [state |-> "", remaining_seconds |-> 0, bar |-> FALSE, percentage |-> 0,
   filled |-> 0, empty |-> 0]

\* the fields TimerPanel.__init__ sets: no session, no interval (0: None)
IdleTimer ==
  [state |-> "idle", remaining_seconds |-> 0, end_time |-> 0,
   update_timer_handle |-> 0, timer_content |-> NoContent]

\* the exit code of a process that has not exited
Running == -1

\* no record has been migrated, nothing has been exported or printed
InitIdle ==
  /\ record = <<>>
  /\ migrations = <<>>
  /\ exported = <<>>
  /\ exit_code = Running
  /\ printed = <<>>
  /\ timer = IdleTimer
  /\ intervals = {}
  /\ clock = 0

\* no panel is mounted
Unmounted ==
  /\ refresh_timer = 0
  /\ callbacks = {}
  /\ mounted = {}

InitRest == InitIdle /\ Unmounted

\* the configuration engine before any operation
InitConfig ==
  /\ fs = InitFs
  /\ doc = EmptyDoc
  /\ arg = "none"
  /\ loaded = NotLoaded
  /\ checked = NotChecked
  /\ app = NotStarted
  /\ panels = NoPanels

Init ==
  /\ InitRest
  /\ InitConfig
  /\ op = "none"
  /\ InitTasks

\* the entries of a document: one per field of a table, one per other value
Entries(d) ==
  UNION {IF d[sec].k = "table"
         THEN {<<sec, f>> : f \in DOMAIN d[sec].t}
         ELSE {<<sec, "">>} : sec \in DOMAIN d}

EditCount(f, d) ==
  Cardinality({l \in Locations : f[l] # InitFs[l]}) + Cardinality(Entries(d))

\* a TOML file holds no null
TomlExpressible(d) ==
  \A sec \in DOMAIN d : \A f \in DOMAIN d[sec].t : d[sec].t[f].k # "null"

(***************************************************************************)
(* The environment: files appear, disappear and are edited                 *)
(***************************************************************************)
SetFile(location, state) ==
  /\ op = "none"
  /\ fs[location] # state
  /\ fs' = [fs EXCEPT ![location] = state]
  /\ EditCount(fs', doc) <= MaxEdits
  /\ UNCHANGED <<doc, op, arg, loaded, checked, app, panels, tvars, xvars>>

\* `field = value` under [section]
WriteField(section, field, value) ==
  LET old == IF section \in DOMAIN doc /\ doc[section].k = "table"
             THEN doc[section].t ELSE EmptyTable
      tbl == [f \in DOMAIN old \cup {field} |->
               IF f = field THEN value ELSE old[f]]
  IN /\ op = "none"
     /\ doc' = [sec \in DOMAIN doc \cup {section} |->
                 IF sec = section THEN TableV(tbl) ELSE doc[sec]]
     /\ doc' # doc
     /\ EditCount(fs, doc') <= MaxEdits
     /\ UNCHANGED <<fs, op, arg, loaded, checked, app, panels, tvars, xvars>>

\* `section = value` at the top level, value not a table
WriteSection(section, value) ==
  /\ op = "none"
  /\ doc' = [sec \in DOMAIN doc \cup {section} |->
              IF sec = section THEN ScalarV(value) ELSE doc[sec]]
  /\ doc' # doc
  /\ EditCount(fs, doc') <= MaxEdits
  /\ UNCHANGED <<fs, op, arg, loaded, checked, app, panels, tvars, xvars>>

\* the values written to files and dictionaries, one or more of every type
InputValues ==
  {BoolV(FALSE), IntV(0), IntV(15), FloatV(705), NaNV, StrV("five"), NullV,
   ArrayV(0, "")}

\* fields of every declared type
LoaderFields ==
  {<<"git", "enabled">>, <<"git", "refresh_interval">>,
   <<"git", "repository_path">>, <<"system", "cpu_warning_threshold">>,
   <<"timer", "focus_duration">>, <<"tasks", "default_sort">>}

SectionValues ==
  {IntV(5), FloatV(15), BoolV(TRUE), StrV("x"), StrV("enabled"),
   ArrayV(1, "enabled"), ArrayV(0, "")}

SectionNames == {"git", "general"}

EditFile == \E l \in Locations : \E st \in FileStates : SetFile(l, st)

WriteLoaderField ==
  \E sf \in LoaderFields : \E v \in InputValues : WriteField(sf[1], sf[2], v)

WriteSectionValue ==
  \E sec \in SectionNames : \E v \in SectionValues : WriteSection(sec, v)

(***************************************************************************)
(* Operations                                                              *)
(***************************************************************************)
\* loader.load_config(custom_path)
CallLoadConfig ==
  \E custom_path \in {"none", "custom"} :
    /\ op = "none"
    /\ TomlExpressible(doc)
    /\ op' = "load_config"
    /\ arg' = custom_path
    /\ loaded' = LoadConfig(custom_path)
    /\ UNCHANGED <<fs, doc, checked, app, panels, tvars, xvars>>

\* loader._merge_config(DevDashConfig(), raw_config) on a dictionary
CallMergeConfig ==
  LET merged == MergeConfig(GetDefaultConfig, doc)
  IN /\ op = "none"
     /\ op' = "merge_config"
     /\ loaded' = [exc |-> merged.exc, msg |-> "", config |-> merged.config,
                   path |-> "none", discovery |-> FALSE]
     /\ UNCHANGED <<fs, doc, arg, checked, app, panels, tvars, xvars>>

\* config with the default every warning announces put in place
Substituted(config, warnings) ==
  [sec \in DOMAIN config |-> [f \in DOMAIN config[sec] |->
    IF \E i \in DOMAIN warnings :
         warnings[i].dflt # NoDefault /\ <<sec, f>> \in warnings[i].names
    THEN GetDefaultConfig[sec][f]
    ELSE config[sec][f]]]

\* validate_config that repairs the configuration it is given
CallValidateConfigRepairing ==
  LET result == ValidateConfig(loaded.config)
  IN /\ op \in {"load_config", "merge_config"}
     /\ loaded.exc = "none"
     /\ ~checked.done
     /\ checked' = [done |-> TRUE, exc |-> result.exc,
                    warnings |-> result.warnings]
     /\ loaded' = [loaded EXCEPT
                     !.config = Substituted(loaded.config, result.warnings)]
     /\ UNCHANGED <<fs, doc, op, arg, app, panels, tvars, xvars>>

\* ConfigValidator.validate_config(config) on a configuration just built
CallValidateConfig ==
  LET result == ValidateConfig(loaded.config)
  IN /\ op \in {"load_config", "merge_config"}
     /\ loaded.exc = "none"
     /\ ~checked.done
     /\ checked' = [done |-> TRUE, exc |-> result.exc,
                    warnings |-> result.warnings]
     /\ UNCHANGED <<fs, doc, op, arg, loaded, app, panels, tvars, xvars>>

\* DevDashApp.compose and the constructors of the panels: every panel is
\* built from its section
compose(config) ==
  [git |-> [config |-> config.git],
   system |-> [config |-> config.system],
   tasks |-> [config |-> config.tasks,
              current_filter_priority |->
                config.tasks.default_priority_filter,
              current_filter_category |->
                config.tasks.default_category_filter,
              show_done |-> config.tasks.show_completed,
              sort_by |-> config.tasks.default_sort],
   timer |-> [config |-> config.timer,
              focus_duration |-> config.timer.focus_duration.n * 60,
              break_duration |-> config.timer.break_duration.n * 60]]

\* DevDashApp(config).run()
RunApp(config) ==
  /\ app' = [state |-> "running", config |-> config]
  /\ panels' = compose(config)

\* cli() without --validate-config, --show-config or --generate-config:
\* load, validate and print the warnings, run the app.  Only ConfigLoadError
\* is caught; any other exception ends the process.
Cli ==
  \E config_arg \in {"none", "custom"} :
    LET result == LoadConfig(config_arg)
        validation == ValidateConfig(result.config)
    IN /\ op = "none"
       /\ TomlExpressible(doc)
       /\ op' = "cli"
       /\ arg' = config_arg
       /\ loaded' = result
       /\ IF result.exc = "ConfigLoadError"
          THEN /\ checked' = NotChecked
               /\ RunApp(GetDefaultConfig)
          ELSE IF result.exc # "none"
          THEN /\ checked' = NotChecked
               /\ app' = [state |-> "crashed", config |-> NoConfig]
               /\ panels' = NoPanels
          ELSE /\ checked' = [done |-> TRUE, exc |-> validation.exc,
                              warnings |-> validation.warnings]
               /\ IF validation.exc # "none"
                  THEN /\ app' = [state |-> "crashed", config |-> NoConfig]
                       /\ panels' = NoPanels
                  ELSE RunApp(result.config)
       /\ UNCHANGED <<fs, doc, tvars, xvars>>

Next ==
  \/ EditFile
  \/ WriteLoaderField
  \/ WriteSectionValue
  \/ CallLoadConfig
  \/ CallMergeConfig
  \/ CallValidateConfig
  \/ Cli

Spec == Init /\ [][Next]_vars

(***************************************************************************)
(* The validator on values of the declared types, in and out of range      *)
(***************************************************************************)
WarningValues == {FloatV(800), FloatV(905), FloatV(1010), NaNV}
CriticalValues == {FloatV(600), FloatV(-10), IntV(101), NaNV}

ValidatorInputs ==
  {<<"system", threshold_fields[i][1], v>> :
     i \in DOMAIN threshold_fields, v \in WarningValues}
  \cup {<<"system", threshold_fields[i][2], v>> :
          i \in DOMAIN threshold_fields, v \in CriticalValues}
  \cup {<<"git", "refresh_interval", IntV(0)>>,
        <<"git", "refresh_interval", IntV(4000)>>,
        <<"git", "max_commits", IntV(-1)>>,
        <<"git", "max_commits", IntV(21)>>,
        <<"system", "refresh_interval", IntV(0)>>,
        <<"system", "refresh_interval", IntV(61)>>,
        <<"system", "progress_bar_width", IntV(4)>>,
        <<"system", "progress_bar_width", IntV(51)>>,
        <<"system", "progress_bar_style", StrV("bars")>>,
        <<"system", "progress_bar_style", StrV("stars")>>,
        <<"tasks", "default_sort", StrV("text")>>,
        <<"tasks", "default_sort", StrV("size")>>,
        <<"tasks", "default_priority_filter", StrV("high")>>,
        <<"tasks", "default_priority_filter", StrV("urgent")>>,
        <<"tasks", "max_visible_tasks", IntV(0)>>,
        <<"tasks", "max_visible_tasks", IntV(101)>>,
        <<"tasks", "truncate_length", IntV(19)>>,
        <<"tasks", "truncate_length", IntV(201)>>,
        <<"tasks", "due_soon_days", IntV(0)>>,
        <<"tasks", "due_soon_days", IntV(31)>>,
        <<"tasks", "export_format", StrV("simple")>>,
        <<"tasks", "export_format", StrV("flat")>>,
        <<"timer", "focus_duration", IntV(0)>>,
        <<"timer", "focus_duration", IntV(241)>>,
        <<"timer", "focus_duration", IntV(50)>>,
        <<"timer", "break_duration", IntV(0)>>,
        <<"timer", "break_duration", IntV(61)>>,
        <<"timer", "long_break_duration", IntV(0)>>,
        <<"timer", "long_break_duration", IntV(121)>>,
        <<"timer", "progress_bar_width", IntV(9)>>,
        <<"timer", "progress_bar_width", IntV(61)>>,
        <<"timer", "notification_sound", StrV("chime")>>,
        <<"timer", "notification_sound", StrV("gong")>>,
        <<"ui", "border_style", StrV("none")>>,
        <<"ui", "border_style", StrV("dashed")>>,
        <<"ui", "panel_padding", IntV(-1)>>,
        <<"ui", "panel_padding", IntV(6)>>,
        <<"keybindings", "quit", StrV("?")>>,
        <<"keybindings", "help", StrV("h")>>}

WriteValidatorField ==
  \E i \in ValidatorInputs : WriteField(i[1], i[2], i[3])

NextValidator ==
  \/ WriteValidatorField
  \/ CallLoadConfig
  \/ CallValidateConfig
  \/ Cli

SpecValidator == Init /\ [][NextValidator]_vars

(***************************************************************************)
(* The periodic refresh of the Git and System panels (git_panel.py,        *)
(* system_panel.py).  set_interval registers a callback that runs until    *)
(* the handle it returned is stopped.                                      *)
(***************************************************************************)
\* number of callbacks registered at one time
MaxCallbacks == 3

\* GitPanel.update_config and SystemPanel.update_config: the panel takes
\* the section (the callbacks are in GitPanel_refresh, SystemPanel_refresh)
GitPanel_update_config(panel, new_config) == [panel EXCEPT !.config = new_config]
SystemPanel_update_config(panel, new_config) == [panel EXCEPT !.config = new_config]

\* TimerPanel.update_config
TimerPanel_update_config(panel, new_config) ==
  [panel EXCEPT !.config = new_config,
                !.focus_duration = new_config.focus_duration.n * 60,
                !.break_duration = new_config.break_duration.n * 60]

PanelEnabled(config) == config.enabled = BoolV(TRUE)

\* set_interval(interval, self.refresh_data): the callbacks with the new one
SetInterval(cbs, owner, interval) ==
  LET handle == CHOOSE h \in 1..(Cardinality(cbs) + 1) :
                  \A cb \in cbs : cb.handle # h
  IN [handle |-> handle,
      callbacks |-> cbs \cup {[owner |-> owner, handle |-> handle,
                               interval |-> interval]}]

\* GitPanel._stop_refresh_timer: [refresh_timer, callbacks]
stop_refresh_timer(rt, cbs) ==
  IF rt # 0
  THEN [refresh_timer |-> 0, callbacks |-> {cb \in cbs : cb.handle # rt}]
  ELSE [refresh_timer |-> rt, callbacks |-> cbs]

\* GitPanel._start_refresh_timer
start_refresh_timer(config, rt, cbs) ==
  LET stopped == stop_refresh_timer(rt, cbs)
      set == SetInterval(stopped.callbacks, "git", config.refresh_interval)
  IN [refresh_timer |-> set.handle, callbacks |-> set.callbacks]

\* GitPanel.on_mount
GitPanel_on_mount(config, rt, cbs) ==
  IF ~PanelEnabled(config) THEN stop_refresh_timer(rt, cbs)
  ELSE start_refresh_timer(config, rt, cbs)

\* GitPanel.update_config past the assignment of the section
GitPanel_refresh(old_config, new_config, rt, cbs) ==
  IF ~PanelEnabled(new_config) THEN stop_refresh_timer(rt, cbs)
  ELSE IF rt = 0 \/ old_config.refresh_interval # new_config.refresh_interval
  THEN start_refresh_timer(new_config, rt, cbs)
  ELSE [refresh_timer |-> rt, callbacks |-> cbs]

\* SystemPanel.on_mount: the callbacks
SystemPanel_on_mount(config, cbs) ==
  IF ~PanelEnabled(config) THEN cbs
  ELSE SetInterval(cbs, "system", config.refresh_interval).callbacks

\* SystemPanel.update_config past the assignment of the section: the
\* callbacks
SystemPanel_refresh(old_config, new_config, cbs) ==
  IF old_config.refresh_interval # new_config.refresh_interval
       /\ PanelEnabled(new_config)
  THEN SetInterval(cbs, "system", new_config.refresh_interval).callbacks
  ELSE cbs

\* the git and the system panel of the composed application are mounted
Mounted(config) ==
  LET git == GitPanel_on_mount(config.git, 0, {})
  IN /\ refresh_timer = git.refresh_timer
     /\ callbacks = SystemPanel_on_mount(config.system, git.callbacks)
     /\ mounted = {"git", "system"}

(***************************************************************************)
(* The tasks panel (tasks_panel.py) and its modals (task_edit_modal.py)    *)
(***************************************************************************)
\* the largest number of tasks in a storage file and in a queried list
MaxTasks == 2

\* json.dump of [task.to_dict() for task in tasks]
ToJson(tasks_) ==
  [k |-> "array",
   items |-> [i \in DOMAIN tasks_ |-> [k |-> "object", d |-> to_dict(tasks_[i])]]]

\* TasksPanel.load_tasks on the file at path: the tasks to assign, or the
\* exception that leaves load_tasks.  Only json.JSONDecodeError and IOError
\* are caught; the first task that cannot be built ends the construction.
load_tasks(path, now) ==
  LET file == disk[path]
      migrated == migrate_task_list(file.content, now)
      built == [i \in DOMAIN migrated.val |-> from_dict(migrated.val[i], now)]
  IN IF ~file.exists THEN [exc |-> "none", tasks |-> <<>>]
     ELSE IF file.content.k = "invalid" THEN [exc |-> "none", tasks |-> <<>>]
     ELSE IF migrated.exc # "none"
     THEN [exc |-> migrated.exc, tasks |-> <<>>]
     ELSE IF \E i \in DOMAIN built : built[i].exc # "none"
     THEN [exc |-> "ValueError", tasks |-> <<>>]
     ELSE [exc |-> "none", tasks |-> [i \in DOMAIN built |-> built[i].task]]

\* TasksPanel.save_tasks: the files after the whole file is rewritten; an
\* IOError of open() is swallowed
save_tasks(tasks_) ==
  IF disk[tasks_file].writable
  THEN [disk EXCEPT ![tasks_file] =
          [exists |-> TRUE, writable |-> TRUE, content |-> ToJson(tasks_)]]
  ELSE disk

\* TasksPanel._interactions_enabled
interactions_enabled == panels.tasks.config.enabled = BoolV(TRUE)

\* the application runs, the panel is mounted and no modal has the keys
Ready ==
  /\ app.state = "running"
  /\ op \notin {"none", "cli"}
  /\ raised = "none"
  /\ screen = NoScreen

Max(S) == CHOOSE x \in S : \A y \in S : y <= x

\* max([t.id for t in self.tasks], default=0) + 1
next_id ==
  (IF tasks = <<>> THEN 0 ELSE Max({tasks[i].id : i \in DOMAIN tasks})) + 1

\* 0 <= self.selected_index < len(self.tasks), the index counted from 1
Selected == selected_index + 1
HasSelection == 0 <= selected_index /\ selected_index < Len(tasks)

\* TasksPanel.on_mount
on_mount ==
  LET loading == load_tasks(tasks_file, today)
  IN /\ app.state = "running"
     /\ op = "cli"
     /\ op' = "on_mount"
     /\ IF ~interactions_enabled
        THEN UNCHANGED <<tasks, raised>>
        ELSE /\ raised' = loading.exc
             /\ tasks' = IF loading.exc = "none" THEN loading.tasks
                         ELSE tasks
     /\ UNCHANGED <<cvars, xvars, disk, tasks_file, selected_index, screen, posted,
                    today, call, returned>>

\* TasksPanel.action_move_up
action_move_up ==
  /\ Ready
  /\ selected_index' =
       IF interactions_enabled /\ selected_index > 0
       THEN selected_index - 1 ELSE selected_index
  /\ UNCHANGED <<cvars, xvars, op, disk, tasks_file, tasks, screen, posted, raised,
                 today, call, returned>>

\* TasksPanel.action_move_down
action_move_down ==
  /\ Ready
  /\ selected_index' =
       IF interactions_enabled /\ selected_index < Len(tasks) - 1
       THEN selected_index + 1 ELSE selected_index
  /\ UNCHANGED <<cvars, xvars, op, disk, tasks_file, tasks, screen, posted, raised,
                 today, call, returned>>

\* TasksPanel.action_toggle_task, save_tasks included
action_toggle_task ==
  /\ Ready
  /\ IF interactions_enabled /\ HasSelection
     THEN /\ tasks' = [tasks EXCEPT ![Selected].done = ~tasks[Selected].done]
          /\ disk' = save_tasks(tasks')
     ELSE UNCHANGED <<tasks, disk>>
  /\ UNCHANGED <<cvars, xvars, op, tasks_file, selected_index, screen, posted, raised,
                 today, call, returned>>

\* TasksPanel.action_delete_task, save_tasks included
action_delete_task ==
  /\ Ready
  /\ IF interactions_enabled /\ HasSelection
     THEN /\ tasks' = SubSeq(tasks, 1, Selected - 1)
                        \o SubSeq(tasks, Selected + 1, Len(tasks))
          /\ selected_index' =
               IF selected_index >= Len(tasks') /\ tasks' # <<>>
               THEN Len(tasks') - 1 ELSE selected_index
          /\ disk' = save_tasks(tasks')
     ELSE UNCHANGED <<tasks, selected_index, disk>>
  /\ UNCHANGED <<cvars, xvars, op, tasks_file, screen, posted, raised, today, call,
                 returned>>

\* TaskEditModal(task, task_id): is_new stands for `task is None`, a
\* task_id of 0 for a missing one
TaskEditModal(task, is_new, task_id) ==
  [name |-> "TaskEditModal",
   task_id |-> IF task_id # 0 THEN task_id
               ELSE IF ~is_new THEN task.id ELSE 1,
   is_new |-> is_new,
   task |-> task]

QuickPriorityModal ==
  [name |-> "QuickPriorityModal", task_id |-> 0, is_new |-> FALSE,
   task |-> NoTask]

\* TaskEditModal.SaveTask and QuickPriorityModal.SetPriority
SaveTask(task_data) ==
  [name |-> "SaveTask", task_data |-> task_data, priority |-> NullV]
SetPriority(priority) ==
  [name |-> "SetPriority", task_data |-> to_dict(NoTask),
   priority |-> priority]

\* what Screen.dismiss() hands to the callback given to push_screen: both
\* modals dismiss without a result, so the callback is not called or is
\* called with None, and a handler returns at once on None.  The message
\* the modal posts goes to the modal and the application, which have no
\* handler for it.
DismissResult == None

\* TasksPanel.action_add_task
action_add_task ==
  /\ Ready
  /\ screen' = IF interactions_enabled
               THEN TaskEditModal(NoTask, TRUE, next_id)
               ELSE screen
  /\ posted' = IF screen' # screen THEN None ELSE posted
  /\ UNCHANGED <<cvars, xvars, op, disk, tasks_file, tasks, selected_index, raised,
                 today, call, returned>>

\* TasksPanel.action_edit_task
action_edit_task ==
  /\ Ready
  /\ screen' = IF ~interactions_enabled THEN screen
               ELSE IF HasSelection
               THEN TaskEditModal(tasks[Selected], FALSE, 0)
               ELSE TaskEditModal(NoTask, TRUE, next_id)
  /\ posted' = IF screen' # screen THEN None ELSE posted
  /\ UNCHANGED <<cvars, xvars, op, disk, tasks_file, tasks, selected_index, raised,
                 today, call, returned>>

\* TasksPanel.action_quick_priority
action_quick_priority ==
  /\ Ready
  /\ screen' = IF interactions_enabled /\ HasSelection
               THEN QuickPriorityModal ELSE screen
  /\ posted' = IF screen' # screen THEN None ELSE posted
  /\ UNCHANGED <<cvars, xvars, op, disk, tasks_file, tasks, selected_index, raised,
                 today, call, returned>>

Min(S) == CHOOSE x \in S : \A y \in S : x <= y

\* TasksPanel.handle_edit_save, save_tasks included
handle_edit_save(message) ==
  LET built == from_dict(message.task_data, today)
      task == built.task
      existing == {i \in DOMAIN tasks : tasks[i].id = task.id}
      existing_idx == IF existing = {} THEN 0 ELSE Min(existing)
  IN IF ~interactions_enabled \/ message = None
     THEN UNCHANGED <<tasks, selected_index, disk, raised>>
     ELSE IF built.exc # "none"
     THEN /\ raised' = built.exc
          /\ UNCHANGED <<tasks, selected_index, disk>>
     ELSE /\ tasks' = IF existing_idx # 0
                      THEN [tasks EXCEPT ![existing_idx] = task]
                      ELSE Append(tasks, task)
          /\ selected_index' = IF existing_idx # 0 THEN selected_index
                               ELSE Len(tasks') - 1
          /\ disk' = save_tasks(tasks')
          /\ UNCHANGED raised

\* TasksPanel.handle_priority_set, save_tasks included
handle_priority_set(message) ==
  IF ~interactions_enabled \/ message = None
  THEN UNCHANGED <<tasks, disk>>
  ELSE IF HasSelection
  THEN /\ tasks' = [tasks EXCEPT ![Selected].priority = message.priority]
       /\ disk' = save_tasks(tasks')
  ELSE UNCHANGED <<tasks, disk>>

\* what the user types into the edit modal, stripped: the text, the choice
\* of the priority Select, the due date, the comma-separated categories
FormTexts == {"", "b"}
FormPriorities == {NullV, StrV("low")}
FormDueDates == {StrV(""), IsoDate(3), StrV("soon")}
FormCategories == {<<"Work", "">>}

\* TaskEditModal.action_save, the callback of push_screen included
action_save ==
  \E text \in FormTexts : \E priority \in FormPriorities :
  \E due \in FormDueDates : \E parts \in FormCategories :
    LET due_date == IF due = StrV("") THEN NullV ELSE due
        categories == SelectSeq(parts, LAMBDA c : c # "")
        task_data ==
          [id |-> screen.task_id,
           text |-> text,
           done |-> IF ~screen.is_new THEN screen.task.done ELSE FALSE,
           priority |-> priority,
           due_date |-> due_date,
           categories |-> ListV(categories),
           created_at |-> IF ~screen.is_new THEN screen.task.created_at
                          ELSE IsoTime(today)]
    IN /\ app.state = "running"
       /\ raised = "none"
       /\ screen.name = "TaskEditModal"
       /\ IF text = ""
          THEN UNCHANGED <<screen, posted, tasks, selected_index, disk,
                           raised>>
          ELSE IF due_date # NullV /\ FromIsoFormat(due_date).exc # "none"
          THEN UNCHANGED <<screen, posted, tasks, selected_index, disk,
                           raised>>
          ELSE /\ posted' = SaveTask(task_data)
               /\ screen' = NoScreen
               /\ handle_edit_save(DismissResult)
       /\ UNCHANGED <<cvars, xvars, op, tasks_file, today, call, returned>>

\* QuickPriorityModal.on_button_pressed and action_set_high, _medium, _low,
\* _none, the callback of push_screen included
on_button_pressed ==
  \E priority \in Priority \cup {NullV} :
    /\ app.state = "running"
    /\ raised = "none"
    /\ screen.name = "QuickPriorityModal"
    /\ posted' = SetPriority(priority)
    /\ screen' = NoScreen
    /\ handle_priority_set(DismissResult)
    /\ UNCHANGED <<cvars, xvars, op, tasks_file, selected_index, raised, today, call,
                   returned>>

\* TaskEditModal.action_cancel and QuickPriorityModal.action_cancel
action_cancel ==
  /\ app.state = "running"
  /\ raised = "none"
  /\ screen # NoScreen
  /\ screen' = NoScreen
  /\ IF screen.name = "TaskEditModal"
     THEN handle_edit_save(DismissResult)
     ELSE /\ handle_priority_set(DismissResult)
          /\ UNCHANGED <<selected_index, raised>>
  /\ UNCHANGED <<cvars, xvars, op, tasks_file, posted, today, call, returned>>

\* the environment: the storage file or its directory loses or regains
\* the permission to write
SetWritable ==
  /\ app.state = "running"
  /\ disk' = [disk EXCEPT ![tasks_file].writable = ~disk[tasks_file].writable]
  /\ UNCHANGED <<cvars, xvars, op, tasks_file, tasks, selected_index, screen,
                 posted, raised, today, call, returned>>

\* the items of the storage files: a number, a legacy record, a current
\* record, records with a priority or a due date the constructor rejects
EmptyDict == [key \in {} |-> 0]
Obj(d) == [k |-> "object", d |-> d]
FileItems ==
  {[k |-> "int", d |-> EmptyDict],
   Obj([id |-> 1, text |-> "a", done |-> FALSE]),
   Obj([id |-> 2, text |-> "b", done |-> TRUE, priority |-> StrV("high"),
        due_date |-> IsoDate(2), categories |-> ListV(<<"Work">>),
        created_at |-> IsoTime(1)]),
   Obj([text |-> "a", priority |-> StrV("urgent")]),
   Obj([id |-> 3, text |-> "a", done |-> FALSE, due_date |-> StrV("soon")])}

\* the storage files: none, no JSON text, a number, arrays of items
FileContents ==
  {NoJson, [k |-> "int", items |-> <<>>]}
    \cup {[k |-> "array", items |-> items] :
            items \in UNION {[1..n -> FileItems] : n \in 0..MaxTasks}}
TaskFiles ==
  {NoFile} \cup {[exists |-> TRUE, writable |-> TRUE, content |-> c] :
                   c \in FileContents}

\* the configuration files the tasks panel is started with
DisabledDoc == [sec \in {"tasks"} |-> TableV([f \in {"enabled"} |-> BoolV(FALSE)])]
TasksDocs == {EmptyDoc, DisabledDoc}

\* the application composed by cli() over a storage file of any content
InitPanel ==
  /\ InitIdle
  /\ fs = InitFs
  /\ doc \in TasksDocs
  /\ arg = "none"
  /\ loaded = LoadConfig("none")
  /\ checked = [done |-> TRUE, exc |-> "none",
                warnings |-> ValidateConfig(loaded.config).warnings]
  /\ app = [state |-> "running", config |-> loaded.config]
  /\ panels = compose(loaded.config)
  /\ op = "cli"
  /\ disk \in [TaskPaths -> TaskFiles]
  /\ disk["work.json"] = NoFile
  /\ tasks_file = TasksConfig.file_path.s
  /\ tasks = <<>>
  /\ selected_index = 0
  /\ screen = NoScreen
  /\ posted = None
  /\ raised = "none"
  /\ today = 2
  /\ call = NoCall
  /\ returned = NoReturn
  /\ Mounted(loaded.config)

NextTasks ==
  \/ on_mount
  \/ action_move_up
  \/ action_move_down
  \/ action_toggle_task
  \/ action_delete_task
  \/ action_add_task
  \/ action_edit_task
  \/ action_quick_priority
  \/ action_save
  \/ on_button_pressed
  \/ action_cancel
  \/ SetWritable

SpecTasks == InitPanel /\ [][NextTasks]_vars

(***************************************************************************)
(* The timer panel (timer_panel.py)                                        *)
(* The panel's configuration and durations are in panels.timer, its        *)
(* session in timer.  A handler that an exception leaves keeps the         *)
(* assignments it made before; the application handles no key and no tick  *)
(* after that.                                                             *)
(***************************************************************************)
\* the last instant of the clock, in seconds
MaxClock == 120

TimerEnabled(panel) == panel.config.enabled = BoolV(TRUE)

\* _create_progress_bar: [exc, bar, percentage, filled, empty]; the
\* percentage and int((percentage / 100) * width) in whole numbers
create_progress_bar(panel, t) ==
  LET total == IF t.state = "focus" THEN panel.focus_duration
               ELSE panel.break_duration
      width == panel.config.progress_bar_width.n
  IN IF t.state = "idle" \/ panel.config.show_progress_bar # BoolV(TRUE)
     THEN [exc |-> "none", bar |-> FALSE, percentage |-> 0, filled |-> 0,
           empty |-> 0]
     ELSE IF total = 0
     THEN [exc |-> "ZeroDivisionError", bar |-> FALSE, percentage |-> 0,
           filled |-> 0, empty |-> 0]
     ELSE [exc |-> "none", bar |-> TRUE,
           percentage |-> (t.remaining_seconds * 100) \div total,
           filled |-> (t.remaining_seconds * width) \div total,
           empty |-> width - (t.remaining_seconds * width) \div total]

\* refresh_display: [exc, timer]
refresh_display(panel, t) ==
  LET progress == create_progress_bar(panel, t)
  IN IF ~TimerEnabled(panel) THEN [exc |-> "none", timer |-> t]
     ELSE IF t.state = "idle"
     THEN [exc |-> "none",
           timer |-> [t EXCEPT !.timer_content =
                        [NoContent EXCEPT !.state = "idle"]]]
     ELSE IF progress.exc # "none" THEN [exc |-> progress.exc, timer |-> t]
     ELSE [exc |-> "none",
           timer |-> [t EXCEPT !.timer_content =
                        [state |-> t.state,
                         remaining_seconds |-> t.remaining_seconds,
                         bar |-> progress.bar,
                         percentage |-> progress.percentage,
                         filled |-> progress.filled,
                         empty |-> progress.empty]]]

\* _stop_update_timer: [timer, intervals]
stop_update_timer(t, ivs) ==
  IF t.update_timer_handle # 0
  THEN [timer |-> [t EXCEPT !.update_timer_handle = 0],
        intervals |-> ivs \ {t.update_timer_handle}]
  ELSE [timer |-> t, intervals |-> ivs]

\* _reset_timer_state that forgets the handle without stopping the interval
reset_timer_stateKeepsInterval(panel, t, ivs, refresh) ==
  LET idle == [t EXCEPT !.update_timer_handle = 0, !.state = "idle",
                        !.remaining_seconds = 0, !.end_time = 0]
  IN [exc |-> "none",
      timer |-> IF refresh /\ TimerEnabled(panel)
                THEN refresh_display(panel, idle).timer ELSE idle,
      intervals |-> ivs]

\* _reset_timer_state: [exc, timer, intervals]
reset_timer_state(panel, t, ivs, refresh) ==
  LET stopped == stop_update_timer(t, ivs)
      idle == [stopped.timer EXCEPT !.state = "idle",
                                    !.remaining_seconds = 0, !.end_time = 0]
  IN [exc |-> "none",
      timer |-> IF refresh /\ TimerEnabled(panel)
                THEN refresh_display(panel, idle).timer ELSE idle,
      intervals |-> stopped.intervals]

\* set_interval: the handle of a new interval
NewHandle(ivs) == CHOOSE h \in 1..(Cardinality(ivs) + 1) : h \notin ivs

\* the body of action_start_focus and action_start_break past the guard
start_session(panel, t, ivs, state, duration, now) ==
  LET started == [t EXCEPT !.state = state, !.remaining_seconds = duration,
                           !.end_time = now + duration]
      stopped == stop_update_timer(started, ivs)
      handle == NewHandle(stopped.intervals)
      registered == [stopped.timer EXCEPT !.update_timer_handle = handle]
      shown == refresh_display(panel, registered)
  IN [exc |-> shown.exc, timer |-> shown.timer,
      intervals |-> stopped.intervals \cup {handle}]

\* update_timer that lets a session run past its end
update_timerNoStop(panel, t, ivs, now) ==
  IF ~TimerEnabled(panel) \/ t.state = "idle"
  THEN [exc |-> "none", timer |-> t, intervals |-> ivs]
  ELSE LET counted == [t EXCEPT !.remaining_seconds =
                         IF t.end_time - now > 0 THEN t.end_time - now ELSE 0]
           shown == refresh_display(panel, counted)
       IN [exc |-> shown.exc, timer |-> shown.timer, intervals |-> ivs]

\* update_timer: [exc, timer, intervals]
update_timer(panel, t, ivs, now) ==
  IF ~TimerEnabled(panel) \/ t.state = "idle"
  THEN [exc |-> "none", timer |-> t, intervals |-> ivs]
  ELSE LET counted == [t EXCEPT !.remaining_seconds =
                         IF t.end_time - now > 0 THEN t.end_time - now ELSE 0]
           shown == refresh_display(panel, counted)
       IN IF counted.remaining_seconds <= 0
          THEN reset_timer_state(panel, counted, ivs, TRUE)
          ELSE [exc |-> shown.exc, timer |-> shown.timer, intervals |-> ivs]

\* the application runs and no exception has ended it
TimerReady == app.state = "running" /\ raised = "none"

CallOf(name) == [NoCall EXCEPT !.name = name]

\* what a handler of the timer panel leaves behind
TimerResult(name, result) ==
  /\ call' = CallOf(name)
  /\ timer' = result.timer
  /\ intervals' = result.intervals
  /\ raised' = result.exc

TimerUnchanged ==
  UNCHANGED <<cvars, op, disk, tasks_file, tasks, selected_index, screen,
              posted, today, returned, record, migrations, exported,
              exit_code, printed, clock, refresh_timer, callbacks, mounted>>

action_start_focus ==
  /\ TimerReady
  /\ clock + panels.timer.focus_duration <= MaxClock
  /\ TimerResult("action_start_focus",
       IF ~TimerEnabled(panels.timer)
       THEN [exc |-> "none", timer |-> timer, intervals |-> intervals]
       ELSE start_session(panels.timer, timer, intervals, "focus",
                          panels.timer.focus_duration, clock))
  /\ TimerUnchanged

action_start_break ==
  /\ TimerReady
  /\ clock + panels.timer.break_duration <= MaxClock
  /\ TimerResult("action_start_break",
       IF ~TimerEnabled(panels.timer)
       THEN [exc |-> "none", timer |-> timer, intervals |-> intervals]
       ELSE start_session(panels.timer, timer, intervals, "break",
                          panels.timer.break_duration, clock))
  /\ TimerUnchanged

action_stop_timer ==
  /\ TimerReady
  /\ TimerResult("action_stop_timer",
       IF ~TimerEnabled(panels.timer)
       THEN [exc |-> "none", timer |-> timer, intervals |-> intervals]
       ELSE reset_timer_state(panels.timer, timer, intervals, TRUE))
  /\ TimerUnchanged

\* a registered interval calls update_timer
Tick ==
  /\ TimerReady
  /\ intervals # {}
  /\ TimerResult("update_timer",
                 update_timer(panels.timer, timer, intervals, clock))
  /\ TimerUnchanged

\* half a minute passes
Advance ==
  /\ clock < MaxClock
  /\ clock' = clock + 30
  /\ UNCHANGED <<cvars, op, tvars, record, migrations, exported, exit_code,
                 printed, timer, intervals, refresh_timer, callbacks,
                 mounted>>

\* the configuration files of the timer panel
TimerDocs ==
  {[sec \in {"timer"} |->
      TableV([f \in {"enabled", "focus_duration", "break_duration",
                     "show_progress_bar"} |->
               CASE f = "enabled" -> BoolV(e)
                 [] f = "focus_duration" -> IntV(m)
                 [] f = "break_duration" -> IntV(1)
                 [] OTHER -> BoolV(b)])] :
     e \in BOOLEAN, m \in {0, 1}, b \in BOOLEAN}

\* TimerPanel.update_config past the assignment of the section and of the
\* durations, panel being the panel with the new section: [exc, timer,
\* intervals]
TimerPanel_session(was_enabled, panel, t, ivs) ==
  LET reset == reset_timer_state(panel, t, ivs, FALSE)
      shown == refresh_display(panel, IF was_enabled THEN t ELSE reset.timer)
  IN IF ~TimerEnabled(panel) THEN reset
     ELSE [exc |-> shown.exc, timer |-> shown.timer,
           intervals |-> IF was_enabled THEN ivs ELSE reset.intervals]

\* TimerPanel.update_config(new_config), as reload_config calls it: the
\* exception that leaves it is caught there
TimerPanelUpdateConfig ==
  \E d \in TimerDocs :
    LET new_config == MergeConfig(GetDefaultConfig, d).config.timer
        panel == TimerPanel_update_config(panels.timer, new_config)
        result == TimerPanel_session(TimerEnabled(panels.timer), panel, timer,
                                     intervals)
    IN /\ TimerReady
       /\ new_config # panels.timer.config
       /\ panels' = [panels EXCEPT !.timer = panel]
       /\ call' = CallOf("update_config")
       /\ timer' = result.timer
       /\ intervals' = result.intervals
       /\ UNCHANGED <<fs, doc, arg, loaded, checked, app, op, disk,
                      tasks_file, tasks, selected_index, screen, posted,
                      raised, today, returned, record, migrations, exported,
                      exit_code, printed, clock, refresh_timer, callbacks,
                      mounted>>

\* the application started on a configuration file of the timer panel
InitTimer ==
  /\ InitTasks
  /\ record = <<>>
  /\ migrations = <<>>
  /\ exported = <<>>
  /\ exit_code = Running
  /\ printed = <<>>
  /\ fs = InitFs
  /\ doc \in TimerDocs
  /\ arg = "none"
  /\ loaded = LoadConfig("none")
  /\ checked = [done |-> TRUE, exc |-> "none",
                warnings |-> ValidateConfig(loaded.config).warnings]
  /\ app = [state |-> "running", config |-> loaded.config]
  /\ panels = compose(loaded.config)
  /\ op = "cli"
  /\ timer = IdleTimer
  /\ intervals = {}
  /\ clock = 0
  /\ Mounted(loaded.config)

NextTimer ==
  \/ action_start_focus
  \/ action_start_break
  \/ action_stop_timer
  \/ Tick
  \/ Advance
  \/ TimerPanelUpdateConfig

SpecTimer == InitTimer /\ [][NextTimer]_vars

\* the scheduler runs a registered interval again and again, and time passes
SpecTimerLive == SpecTimer /\ WF_vars(Tick) /\ WF_vars(Advance)

(***************************************************************************)
(* Reload of the configuration of the running application (main.py)        *)
(***************************************************************************)
\* TasksPanel.update_config: the panel, its file and its tasks when the
\* method returns or when the exception exc of load_tasks leaves it
TasksPanel_update_config(panel, new_config) ==
  LET old_path == panel.config.file_path
      was_enabled == panel.config.enabled = BoolV(TRUE)
      enabled == new_config.enabled = BoolV(TRUE)
      reloads == old_path # new_config.file_path \/ (enabled /\ ~was_enabled)
      loading == load_tasks(new_config.file_path.s, today)
      failed == reloads /\ loading.exc # "none"
  IN [exc |-> IF failed THEN loading.exc ELSE "none",
      tasks_file |-> IF reloads THEN new_config.file_path.s ELSE tasks_file,
      tasks |-> IF reloads /\ ~failed THEN loading.tasks ELSE tasks,
      panel |-> IF failed THEN [panel EXCEPT !.config = new_config]
                ELSE [config |-> new_config,
                      current_filter_priority |->
                        new_config.default_priority_filter,
                      current_filter_category |->
                        new_config.default_category_filter,
                      show_done |-> new_config.show_completed,
                      sort_by |-> new_config.default_sort]]

\* DevDashApp.reload_config: every exception is caught and reported, what
\* was assigned before it stays assigned
reload_config ==
  LET new == LoadConfig("none")
      validation == ValidateConfig(new.config)
      new_config == new.config
      updated == TasksPanel_update_config(panels.tasks, new_config.tasks)
      git == GitPanel_refresh(panels.git.config, new_config.git,
                              refresh_timer, callbacks)
      session == TimerPanel_session(
                   TimerEnabled(panels.timer),
                   TimerPanel_update_config(panels.timer, new_config.timer),
                   timer, intervals)
  IN /\ Ready
     /\ TomlExpressible(doc)
     /\ op' = "reload_config"
     /\ loaded' = new
     /\ IF new.exc # "none"
        THEN UNCHANGED <<checked, app, panels, tasks_file, tasks,
                         refresh_timer, callbacks, timer, intervals>>
        ELSE /\ checked' = [done |-> TRUE, exc |-> validation.exc,
                            warnings |-> validation.warnings]
             /\ IF validation.exc # "none"
                THEN UNCHANGED <<app, panels, tasks_file, tasks,
                                 refresh_timer, callbacks, timer, intervals>>
                ELSE /\ app' = [app EXCEPT !.config = new_config]
                     /\ tasks_file' = updated.tasks_file
                     /\ tasks' = updated.tasks
                     /\ refresh_timer' = git.refresh_timer
                     /\ callbacks' =
                          SystemPanel_refresh(panels.system.config,
                                              new_config.system,
                                              git.callbacks)
                     /\ timer' = IF updated.exc # "none" THEN timer
                                 ELSE session.timer
                     /\ intervals' = IF updated.exc # "none" THEN intervals
                                     ELSE session.intervals
                     /\ panels' =
                          [git |-> GitPanel_update_config(panels.git,
                                                          new_config.git),
                           system |-> SystemPanel_update_config(
                                        panels.system, new_config.system),
                           tasks |-> updated.panel,
                           timer |-> IF updated.exc # "none"
                                     THEN panels.timer
                                     ELSE TimerPanel_update_config(
                                            panels.timer, new_config.timer)]
     /\ UNCHANGED <<fs, doc, arg, disk, selected_index, screen, posted,
                    raised, today, call, returned, record, migrations,
                    exported, exit_code, printed, clock, mounted>>

\* the configuration files written while the application runs: an empty
\* file, another storage file, the tasks panel switched off, another focus
\* duration, a section that is no table
ReloadDocs ==
  {EmptyDoc,
   [sec \in {"tasks"} |->
      TableV([f \in {"file_path"} |-> StrV("work.json")])],
   DisabledDoc,
   [sec \in {"timer"} |->
      TableV([f \in {"focus_duration"} |-> IntV(50)])],
   [sec \in {"git"} |-> ScalarV(IntV(5))]}

\* the environment: the configuration file is rewritten, as valid TOML or
\* not
EditConfigFile ==
  \E st \in {"ok", "badsyntax"} : \E d \in ReloadDocs :
    /\ app.state = "running"
    /\ fs' = [fs EXCEPT !["cwd"] = st]
    /\ doc' = d
    /\ <<fs', doc'>> # <<fs, doc>>
    /\ UNCHANGED <<op, arg, loaded, checked, app, panels, tvars, xvars>>

\* the storage files at both paths: none, one legacy record, one record
\* with a priority the constructor rejects
ReloadFiles ==
  {NoFile,
   [exists |-> TRUE, writable |-> TRUE,
    content |-> [k |-> "array",
                 items |-> <<Obj([id |-> 1, text |-> "a", done |-> FALSE])>>]],
   [exists |-> TRUE, writable |-> TRUE,
    content |-> [k |-> "array",
                 items |-> <<Obj([text |-> "a",
                                  priority |-> StrV("urgent")])>>]]}

\* the application composed by cli() from an empty configuration file
InitReload ==
  /\ InitIdle
  /\ fs = InitFs
  /\ doc = EmptyDoc
  /\ arg = "none"
  /\ loaded = LoadConfig("none")
  /\ checked = [done |-> TRUE, exc |-> "none",
                warnings |-> ValidateConfig(loaded.config).warnings]
  /\ app = [state |-> "running", config |-> loaded.config]
  /\ panels = compose(loaded.config)
  /\ op = "cli"
  /\ disk \in [TaskPaths -> ReloadFiles]
  /\ tasks_file = TasksConfig.file_path.s
  /\ tasks = <<>>
  /\ selected_index = 0
  /\ screen = NoScreen
  /\ posted = None
  /\ raised = "none"
  /\ today = 2
  /\ call = NoCall
  /\ returned = NoReturn
  /\ Mounted(loaded.config)

NextReload ==
  \/ on_mount
  \/ EditConfigFile
  \/ reload_config
  \/ action_toggle_task

SpecReload == InitReload /\ [][NextReload]_vars

(***************************************************************************)
(* Filters, sort order and selection of the tasks panel (tasks_panel.py)   *)
(***************************************************************************)
\* TasksPanel.get_filtered_sorted_tasks: the tasks refresh_display shows
get_filtered_sorted_tasks(panel, tasks_) ==
  sort_tasks(filter_tasks(tasks_, panel.current_filter_priority,
                          panel.current_filter_category,
                          panel.show_done = BoolV(TRUE)),
             panel.sort_by.s)

\* a filter or sort key changes the panel and nothing else
FilterUnchanged ==
  UNCHANGED <<fs, doc, arg, loaded, checked, app, xvars, op, disk, tasks_file,
              tasks, selected_index, screen, posted, today, call, returned>>

\* the panels with the priority filter of the tasks panel set
with_filter_priority(priority) ==
  IF interactions_enabled
  THEN [panels EXCEPT !.tasks.current_filter_priority = StrV(priority)]
  ELSE panels

\* TasksPanel.action_filter_tasks
action_filter_tasks ==
  /\ Ready
  /\ panels' = IF interactions_enabled
               THEN [panels EXCEPT
                       !.tasks.show_done =
                          BoolV(panels.tasks.show_done # BoolV(TRUE))]
               ELSE panels
  /\ UNCHANGED raised
  /\ FilterUnchanged

\* TasksPanel.action_filter_high
action_filter_high ==
  /\ Ready
  /\ panels' = with_filter_priority("high")
  /\ UNCHANGED raised
  /\ FilterUnchanged

\* TasksPanel.action_filter_medium
action_filter_medium ==
  /\ Ready
  /\ panels' = with_filter_priority("medium")
  /\ UNCHANGED raised
  /\ FilterUnchanged

\* TasksPanel.action_filter_low
action_filter_low ==
  /\ Ready
  /\ panels' = with_filter_priority("low")
  /\ UNCHANGED raised
  /\ FilterUnchanged

\* TasksPanel.action_clear_filters
action_clear_filters ==
  /\ Ready
  /\ panels' = IF interactions_enabled
               THEN [panels EXCEPT !.tasks.current_filter_priority = NullV,
                                   !.tasks.current_filter_category = NullV,
                                   !.tasks.show_done = BoolV(TRUE)]
               ELSE panels
  /\ UNCHANGED raised
  /\ FilterUnchanged

\* sort_options and the option after the current one; list.index raises
\* ValueError on a sort_by that is no option
sort_options == <<"created", "priority", "due_date", "text">>

\* TasksPanel.action_sort_tasks
action_sort_tasks ==
  LET current == {i \in DOMAIN sort_options :
                    StrV(sort_options[i]) = panels.tasks.sort_by}
      current_idx == Min(current) - 1
  IN /\ Ready
     /\ IF ~interactions_enabled THEN UNCHANGED <<panels, raised>>
        ELSE IF current = {}
        THEN /\ raised' = "ValueError"
             /\ UNCHANGED panels
        ELSE /\ panels' =
                  [panels EXCEPT
                     !.tasks.sort_by =
                        StrV(sort_options[((current_idx + 1)
                                             % Len(sort_options)) + 1])]
             /\ UNCHANGED raised
     /\ FilterUnchanged

\* the storage file of the panel: two tasks, the second done and of high
\* priority
TwoTasks ==
  [exists |-> TRUE, writable |-> TRUE,
   content |-> [k |-> "array",
                items |-> <<Obj([id |-> 1, text |-> "a", done |-> FALSE]),
                            Obj([id |-> 2, text |-> "b", done |-> TRUE,
                                 priority |-> StrV("high"),
                                 due_date |-> IsoDate(2),
                                 categories |-> ListV(<<"Work">>),
                                 created_at |-> IsoTime(1)])>>]]

\* another storage file: one task
OneTask ==
  [exists |-> TRUE, writable |-> TRUE,
   content |-> [k |-> "array",
                items |-> <<Obj([id |-> 1, text |-> "a", done |-> FALSE])>>]]

\* the configuration files written while the panel is used: an empty file,
\* the other storage file, completed tasks hidden
SelectionDocs ==
  {EmptyDoc,
   [sec \in {"tasks"} |->
      TableV([f \in {"file_path"} |-> StrV("work.json")])],
   [sec \in {"tasks"} |->
      TableV([f \in {"show_completed"} |-> BoolV(FALSE)])]}

\* the environment: the configuration file is rewritten
EditTasksSection ==
  \E d \in SelectionDocs :
    /\ Ready
    /\ doc' = d
    /\ doc' # doc
    /\ UNCHANGED <<fs, op, arg, loaded, checked, app, panels, tvars, xvars>>

\* the application composed by cli() from an empty configuration file over
\* the storage files
InitSelection ==
  /\ InitIdle
  /\ fs = InitFs
  /\ doc = EmptyDoc
  /\ arg = "none"
  /\ loaded = LoadConfig("none")
  /\ checked = [done |-> TRUE, exc |-> "none",
                warnings |-> ValidateConfig(loaded.config).warnings]
  /\ app = [state |-> "running", config |-> loaded.config]
  /\ panels = compose(loaded.config)
  /\ op = "cli"
  /\ disk \in [TaskPaths -> {OneTask, TwoTasks}]
  /\ tasks_file = TasksConfig.file_path.s
  /\ tasks = <<>>
  /\ selected_index = 0
  /\ screen = NoScreen
  /\ posted = None
  /\ raised = "none"
  /\ today = 2
  /\ call = NoCall
  /\ returned = NoReturn
  /\ Mounted(loaded.config)

NextSelection ==
  \/ on_mount
  \/ action_move_up
  \/ action_move_down
  \/ action_toggle_task
  \/ action_delete_task
  \/ action_filter_tasks
  \/ action_filter_high
  \/ action_filter_medium
  \/ action_filter_low
  \/ action_clear_filters
  \/ action_sort_tasks
  \/ reload_config
  \/ EditTasksSection

SpecSelection == InitSelection /\ [][NextSelection]_vars

(***************************************************************************)
(* Mount and reconfiguration of the Git and System panels                  *)
(***************************************************************************)
\* the sections a configuration file gives the two panels: switched on or
\* off, with the default refresh_interval or another
RefreshDocs ==
  {[sec \in {"git", "system"} |->
      TableV([f \in {"enabled", "refresh_interval"} |->
               CASE f = "enabled" ->
                      BoolV(IF sec = "git" THEN ge ELSE se)
                 [] OTHER -> IntV(IF sec = "git" THEN gi ELSE si)])] :
     ge \in BOOLEAN, se \in BOOLEAN, gi \in {5, 10}, si \in {1, 2}}

\* the refresh callbacks and the panels are the only state that changes
RefreshUnchanged ==
  UNCHANGED <<fs, doc, arg, loaded, checked, app, op, disk, tasks_file, tasks,
              selected_index, screen, posted, raised, today, returned, record,
              migrations, exported, exit_code, printed, timer, intervals,
              clock>>

\* GitPanel.on_mount
GitPanelOnMount ==
  LET git == GitPanel_on_mount(panels.git.config, refresh_timer, callbacks)
  IN /\ "git" \notin mounted
     /\ mounted' = mounted \cup {"git"}
     /\ refresh_timer' = git.refresh_timer
     /\ callbacks' = git.callbacks
     /\ call' = CallOf("GitPanel.on_mount")
     /\ UNCHANGED panels
     /\ RefreshUnchanged

\* SystemPanel.on_mount
SystemPanelOnMount ==
  /\ "system" \notin mounted
  /\ mounted' = mounted \cup {"system"}
  /\ callbacks' = SystemPanel_on_mount(panels.system.config, callbacks)
  /\ call' = CallOf("SystemPanel.on_mount")
  /\ UNCHANGED <<panels, refresh_timer>>
  /\ RefreshUnchanged

\* GitPanel.update_config(new_config), as reload_config calls it
GitPanelUpdateConfig ==
  \E d \in RefreshDocs :
    LET new_config == MergeConfig(GetDefaultConfig, d).config.git
        git == GitPanel_refresh(panels.git.config, new_config, refresh_timer,
                                callbacks)
    IN /\ "git" \in mounted
       /\ new_config # panels.git.config
       /\ panels' = [panels EXCEPT
                       !.git = GitPanel_update_config(panels.git, new_config)]
       /\ refresh_timer' = git.refresh_timer
       /\ callbacks' = git.callbacks
       /\ call' = CallOf("GitPanel.update_config")
       /\ UNCHANGED mounted
       /\ RefreshUnchanged

\* SystemPanel.update_config(new_config), as reload_config calls it
SystemPanelUpdateConfig ==
  \E d \in RefreshDocs :
    LET new_config == MergeConfig(GetDefaultConfig, d).config.system
    IN /\ "system" \in mounted
       /\ new_config # panels.system.config
       /\ panels' = [panels EXCEPT
                       !.system = SystemPanel_update_config(panels.system,
                                                            new_config)]
       /\ callbacks' = SystemPanel_refresh(panels.system.config, new_config,
                                           callbacks)
       /\ Cardinality(callbacks') <= MaxCallbacks
       /\ call' = CallOf("SystemPanel.update_config")
       /\ UNCHANGED <<mounted, refresh_timer>>
       /\ RefreshUnchanged

\* the application composed from a configuration file of the two panels,
\* no panel mounted yet
InitRefresh ==
  /\ InitTasks
  /\ InitIdle
  /\ Unmounted
  /\ fs = InitFs
  /\ doc \in RefreshDocs
  /\ arg = "none"
  /\ loaded = LoadConfig("none")
  /\ checked = [done |-> TRUE, exc |-> "none",
                warnings |-> ValidateConfig(loaded.config).warnings]
  /\ app = [state |-> "running", config |-> loaded.config]
  /\ panels = compose(loaded.config)
  /\ op = "cli"

NextRefresh ==
  \/ GitPanelOnMount
  \/ SystemPanelOnMount
  \/ GitPanelUpdateConfig
  \/ SystemPanelUpdateConfig

SpecRefresh == InitRefresh /\ [][NextRefresh]_vars

(***************************************************************************)
(* The configuration editor (config_editor_modal.py).  Every widget is     *)
(* composed from the configuration the editor is opened with; an Input     *)
(* holds str(value), the text of the value.                                *)
(***************************************************************************)
\* the fields of a section that have a widget
WidgetFields(sec) ==
  CASE sec = "git" -> Fields("git") \ {"compact_mode"}
    [] sec = "system" -> Fields("system")
    [] sec = "tasks" ->
         Fields("tasks") \ {"default_priority_filter",
                            "default_category_filter"}
    [] sec = "timer" ->
         Fields("timer") \ {"notification_enabled", "notification_sound"}
    [] sec = "keybindings" -> Fields("keybindings")
    [] OTHER -> {}

\* the fields whose Input is read through int() and through float()
IntInputs(sec) ==
  {f \in WidgetFields(sec) : SectionTypes[sec][f] = "int"}
FloatInputs(sec) ==
  {f \in WidgetFields(sec) : SectionTypes[sec][f] = "float"}

\* str.strip() on the strings of the model
Strip(str) ==
  CASE str = " x " -> "x"
    [] str = " " -> ""
    [] OTHER -> str

\* int(text) of the text str(value): the digits of an integer and nothing
\* else
ParseInt(value) ==
  IF value.k = "int" THEN [exc |-> "none", val |-> IntV(value.n)]
  ELSE [exc |-> "ValueError", val |-> NullV]

\* float(text) of the text str(value)
ParseFloat(value) ==
  CASE value.k = "int" -> [exc |-> "none", val |-> FloatV(value.n * 10)]
    [] value.k = "float" -> [exc |-> "none", val |-> FloatV(value.n)]
    [] value.k = "nan" -> [exc |-> "none", val |-> NaNV]
    [] OTHER -> [exc |-> "ValueError", val |-> NullV]

\* the value _save_config reads from the widget of a field: [exc, val]
WidgetValue(config, sec, f) ==
  LET value == config[sec][f]
  IN CASE f \in IntInputs(sec) -> ParseInt(value)
       [] f \in FloatInputs(sec) -> ParseFloat(value)
       [] sec = "git" /\ f = "repository_path" ->
            \* value=... or "", .strip(), None when empty
            LET text == Strip(IF value = NullV THEN "" ELSE value.s)
            IN [exc |-> "none",
                val |-> IF text = "" THEN NullV ELSE StrV(text)]
       [] sec = "keybindings" -> [exc |-> "none", val |-> StrV(Strip(value.s))]
       [] OTHER -> [exc |-> "none", val |-> value]

\* the values read from the widgets, by section and field
Widgets(config) ==
  [sec \in {"git", "system", "tasks", "timer", "keybindings"} |->
     [f \in WidgetFields(sec) |-> WidgetValue(config, sec, f).val]]

\* a threshold pair fails the checks
ThresholdErrors(w, warning, critical) ==
  \/ Less(w.system[warning], IntV(0)) \/ Greater(w.system[warning], IntV(100))
  \/ Less(w.system[critical], IntV(0))
  \/ Greater(w.system[critical], IntV(100))
  \/ GreaterEq(w.system[warning], w.system[critical])

\* the list of validation errors is not empty
EditorErrors(w) ==
  \/ w.git.refresh_interval.n < 1
  \/ w.git.max_commits.n < 0 \/ w.git.max_commits.n > 20
  \/ w.system.refresh_interval.n < 1
  \/ ThresholdErrors(w, "cpu_warning_threshold", "cpu_critical_threshold")
  \/ ThresholdErrors(w, "ram_warning_threshold", "ram_critical_threshold")
  \/ ThresholdErrors(w, "disk_warning_threshold", "disk_critical_threshold")
  \/ w.tasks.max_visible_tasks.n < 1
  \/ w.tasks.default_sort.s \notin {"created", "priority", "due_date", "text"}
  \/ w.tasks.export_format.s \notin {"grouped", "simple", "detailed"}
  \/ w.timer.focus_duration.n < 1
  \/ w.timer.break_duration.n < 1
  \/ w.timer.long_break_duration.n < 1
  \/ \E f \in Fields("keybindings") : w.keybindings[f].s = ""
  \/ \E f, g \in Fields("keybindings") :
       f # g /\ w.keybindings[f] = w.keybindings[g]

\* the TOML content _save_config builds, as the document a parser reads
\* from it
toml_content(config, w) ==
  [sec \in {"git", "system", "tasks", "timer", "ui", "keybindings"} |->
     TableV(
       CASE sec = "git" ->
              [w.git EXCEPT
                 !.repository_path =
                    IF w.git.repository_path = NullV THEN StrV("")
                    ELSE w.git.repository_path]
         [] sec = "timer" ->
              [f \in Fields("timer") |->
                 CASE f = "notification_enabled" -> BoolV(FALSE)
                   [] f = "notification_sound" -> StrV("bell")
                   [] OTHER -> w.timer[f]]
         [] sec = "ui" ->
              [f \in Fields("ui") |->
                 CASE f = "border_style" -> config.ui.border_style
                   [] f = "panel_padding" -> config.ui.panel_padding
                   [] f = "compact_view" -> BoolV(FALSE)
                   [] OTHER -> BoolV(TRUE)]
         [] OTHER -> w[sec])]

\* the file _save_config writes to, the editor opened on config_path
config_file(config_path) ==
  IF config_path # "none" THEN config_path
  ELSE IF FindConfigFile # "none" THEN FindConfigFile
  ELSE "cwd"

\* _save_config: [dismissed, status, fs, doc]
save_config(config, config_path) ==
  LET w == Widgets(config)
      failed == \E sec \in DOMAIN w : \E f \in DOMAIN w[sec] :
                  WidgetValue(config, sec, f).exc # "none"
  IN IF failed
     THEN [dismissed |-> FALSE, status |-> "Invalid input", fs |-> fs,
           doc |-> doc]
     ELSE IF EditorErrors(w)
     THEN [dismissed |-> FALSE, status |-> "Validation errors", fs |-> fs,
           doc |-> doc]
     ELSE IF fs[config_file(config_path)] = "dir"
     THEN [dismissed |-> FALSE, status |-> "Error saving config", fs |-> fs,
           doc |-> doc]
     ELSE [dismissed |-> TRUE, status |-> "",
           fs |-> [fs EXCEPT ![config_file(config_path)] = "ok"],
           doc |-> toml_content(config, w)]

ConfigEditorModal ==
  [name |-> "ConfigEditorModal", task_id |-> 0, is_new |-> FALSE,
   task |-> NoTask]

\* the callback of the dismissed editor has not run yet
Dismissed == op = "dismiss"

\* DevDashApp.action_config: the editor is pushed with the configuration
\* of the application and the file the discovery finds
action_config ==
  /\ Ready
  /\ ~Dismissed
  /\ screen' = ConfigEditorModal
  /\ call' = CallOf("action_config")
  /\ UNCHANGED <<cvars, xvars, op, disk, tasks_file, tasks, selected_index,
                 posted, raised, today, returned>>

\* ConfigEditorModal.action_save with no widget changed: on success the
\* file is written and the editor dismissed with True
ConfigEditorModal_action_save ==
  LET saved == save_config(app.config, FindConfigFile)
  IN /\ screen = ConfigEditorModal
     /\ fs' = saved.fs
     /\ doc' = saved.doc
     /\ screen' = IF saved.dismissed THEN NoScreen ELSE screen
     /\ op' = IF saved.dismissed THEN "dismiss" ELSE op
     /\ call' = [CallOf("ConfigEditorModal.action_save") EXCEPT
                   !.sort_by = saved.status]
     /\ UNCHANGED <<arg, loaded, checked, app, panels, xvars, disk, tasks_file,
                    tasks, selected_index, posted, raised, today, returned>>

\* ConfigEditorModal.action_cancel: dismissed with False, nothing reloads
ConfigEditorModal_action_cancel ==
  /\ screen = ConfigEditorModal
  /\ screen' = NoScreen
  /\ call' = CallOf("ConfigEditorModal.action_cancel")
  /\ UNCHANGED <<cvars, xvars, op, disk, tasks_file, tasks, selected_index,
                 posted, raised, today, returned>>

\* handle_config_result(True)
handle_config_result ==
  /\ Dismissed
  /\ reload_config

\* the configuration files the application is started on and that are
\* written while it runs: values the loader takes and the editor's checks
\* pass, and a refresh interval the checks refuse
EditorDocs ==
  {EmptyDoc,
   [sec \in {"git"} |->
      TableV([f \in {"repository_path"} |-> StrV(" x ")])],
   [sec \in {"git"} |-> TableV([f \in {"compact_mode"} |-> BoolV(TRUE)])],
   [sec \in {"git"} |-> TableV([f \in {"refresh_interval"} |-> IntV(0)])],
   [sec \in {"system"} |->
      TableV([f \in {"cpu_warning_threshold"} |-> IntV(70)])],
   [sec \in {"tasks"} |->
      TableV([f \in {"default_priority_filter"} |-> StrV("high")])],
   [sec \in {"timer"} |->
      TableV([f \in {"notification_enabled"} |-> BoolV(TRUE)])],
   [sec \in {"ui"} |-> TableV([f \in {"show_footer"} |-> BoolV(FALSE)])],
   [sec \in {"ui"} |-> TableV([f \in {"panel_padding"} |-> IntV(2)])],
   [sec \in {"general"} |-> TableV([f \in {"theme"} |-> StrV("x")])],
   [sec \in {"keybindings"} |-> TableV([f \in {"quit"} |-> StrV("Q")])]}

\* the environment: the configuration file is rewritten while no editor is
\* open
RewriteConfigFile ==
  \E d \in EditorDocs :
    /\ Ready
    /\ ~Dismissed
    /\ FindConfigFile # "none"
    /\ doc' = d
    /\ doc' # doc
    /\ UNCHANGED <<fs, op, arg, loaded, checked, app, panels, tvars, xvars>>

\* the file system the application is started in: a file in the working
\* directory, in the user configuration directory, or none
EditorFs ==
  {InitFs,
   [l \in Locations |-> IF l = "xdg" THEN "ok" ELSE "absent"],
   [l \in Locations |-> "absent"]}

\* the application composed by cli() from a configuration file
InitEditor ==
  /\ InitIdle
  /\ fs \in EditorFs
  /\ doc \in EditorDocs
  /\ arg = "none"
  /\ loaded = LoadConfig("none")
  /\ checked = [done |-> TRUE, exc |-> "none",
                warnings |-> ValidateConfig(loaded.config).warnings]
  /\ app = [state |-> "running", config |-> loaded.config]
  /\ panels = compose(loaded.config)
  /\ op = "cli"
  /\ InitTasks
  /\ Mounted(loaded.config)

NextEditor ==
  \/ on_mount
  \/ action_config
  \/ ConfigEditorModal_action_save
  \/ ConfigEditorModal_action_cancel
  \/ handle_config_result
  \/ RewriteConfigFile

SpecEditor == InitEditor /\ [][NextEditor]_vars

(***************************************************************************)
(* The queries of the task model on collections of every shape             *)
(***************************************************************************)
\* what the queried tasks are built from: every priority, done and not
\* done, due dates before, on and after today, categories in either case,
\* two instants of creation, pairs that agree on priority and instant
QueryInputs ==
  {[id |-> 1, text |-> "a", done |-> FALSE, priority |-> StrV("high"),
    due_date |-> IsoDate(2), categories |-> <<"Work">>, created_at |-> 1],
   [id |-> 2, text |-> "B", done |-> FALSE, priority |-> StrV("high"),
    due_date |-> NullV, categories |-> <<>>, created_at |-> 1],
   [id |-> 3, text |-> "a", done |-> TRUE, priority |-> StrV("high"),
    due_date |-> IsoDate(2), categories |-> <<"work">>, created_at |-> 2],
   [id |-> 4, text |-> "b", done |-> FALSE, priority |-> StrV("medium"),
    due_date |-> IsoDate(3), categories |-> <<>>, created_at |-> 2],
   [id |-> 5, text |-> "a", done |-> TRUE, priority |-> StrV("medium"),
    due_date |-> NullV, categories |-> <<"Work">>, created_at |-> 1],
   [id |-> 6, text |-> "b", done |-> FALSE, priority |-> StrV("low"),
    due_date |-> IsoDate(4), categories |-> <<>>, created_at |-> 2],
   [id |-> 7, text |-> "a", done |-> FALSE, priority |-> NullV,
    due_date |-> IsoDate(3), categories |-> <<"Work">>, created_at |-> 1],
   [id |-> 8, text |-> "B", done |-> TRUE, priority |-> NullV,
    due_date |-> NullV, categories |-> <<>>, created_at |-> 2]}

\* the tasks the constructor builds from them
QueryTasks ==
  {Task(i.id, i.text, i.done, i.priority, i.due_date, ListV(i.categories),
        IsoTime(i.created_at), i.created_at).task : i \in QueryInputs}

\* the days date.today() is drawn from, the windows of is_due_soon
Days == {2, 3}
Windows == {0, 1}

\* a collection of up to MaxTasks tasks on some day, no query made
InitQuery ==
  /\ InitRest
  /\ InitConfig
  /\ op = "none"
  /\ disk = [path \in TaskPaths |-> NoFile]
  /\ tasks_file = TasksConfig.file_path.s
  /\ tasks \in UNION {[1..n -> QueryTasks] : n \in 0..MaxTasks}
  /\ selected_index = 0
  /\ screen = NoScreen
  /\ posted = None
  /\ raised = "none"
  /\ today \in Days
  /\ call = NoCall
  /\ returned = NoReturn

\* filter_tasks(tasks, priority, category, show_done)
CallFilterTasks ==
  \E priority \in Priority \cup {NullV} :
  \E category \in {NullV, StrV("WORK")} : \E show_done \in BOOLEAN :
    /\ call' = [NoCall EXCEPT !.name = "filter_tasks",
                              !.priority = priority,
                              !.category = category,
                              !.show_done = show_done]
    /\ returned' =
         [bool |-> FALSE,
          tasks |-> filter_tasks(tasks, priority, category, show_done)]
    /\ UNCHANGED <<cvars, xvars, op, disk, tasks_file, tasks, selected_index,
                   screen, posted, raised, today>>

\* sort_tasks(tasks, sort_by)
CallSortTasks ==
  \E sort_by \in {"created", "priority", "due_date", "text"} :
    /\ call' = [NoCall EXCEPT !.name = "sort_tasks", !.sort_by = sort_by]
    /\ returned' = [bool |-> FALSE, tasks |-> sort_tasks(tasks, sort_by)]
    /\ UNCHANGED <<cvars, xvars, op, disk, tasks_file, tasks, selected_index,
                   screen, posted, raised, today>>

\* tasks[index].is_overdue()
CallIsOverdue ==
  \E index \in DOMAIN tasks :
    /\ call' = [NoCall EXCEPT !.name = "is_overdue", !.index = index]
    /\ returned' = [bool |-> is_overdue(tasks[index], today),
                    tasks |-> <<>>]
    /\ UNCHANGED <<cvars, xvars, op, disk, tasks_file, tasks, selected_index,
                   screen, posted, raised, today>>

\* tasks[index].is_due_soon(days)
CallIsDueSoon ==
  \E index \in DOMAIN tasks : \E days \in Windows :
    /\ call' = [NoCall EXCEPT !.name = "is_due_soon", !.index = index,
                              !.days = days]
    /\ returned' = [bool |-> is_due_soon(tasks[index], days, today),
                    tasks |-> <<>>]
    /\ UNCHANGED <<cvars, xvars, op, disk, tasks_file, tasks, selected_index,
                   screen, posted, raised, today>>

\* export_to_markdown(tasks, format_type="grouped") with the default title
CallExportGrouped ==
  /\ call' = [NoCall EXCEPT !.name = "export_to_markdown"]
  /\ returned' = NoReturn
  /\ exported' = export_grouped_by_priority(tasks, "DevDash Tasks", today).content
  /\ UNCHANGED <<cvars, op, disk, tasks_file, tasks, selected_index,
                 screen, posted, raised, today, record, migrations,
                 exit_code, printed, timer, intervals, clock, refresh_timer,
                 callbacks, mounted>>

NextQuery ==
  \/ CallExportGrouped
  \/ CallFilterTasks
  \/ CallSortTasks
  \/ CallIsOverdue
  \/ CallIsDueSoon

SpecQuery == InitQuery /\ [][NextQuery]_vars

(***************************************************************************)
(* The migration of stored records (task_model.py)                         *)
(***************************************************************************)
\* number of times a record is migrated in a row
MaxMigrations == 2

\* the keys a stored record may hold; "note" is a key no format knows
RecordKeys ==
  {"id", "text", "done", "priority", "due_date", "categories", "created_at",
   "note"}

\* records that hold every key, with values that differ from the defaults
FullRecords ==
  [id : {1}, text : {"a"}, done : {TRUE},
   priority : {NullV, StrV("high")}, due_date : {IsoDate(2)},
   categories : {ListV(<<"Work">>)}, created_at : {NullV, IsoTime(1)},
   note : {"n"}]

\* the raw records: the legacy format, the new format and every mix
RawRecords ==
  {[key \in keys |-> full[key]] : full \in FullRecords,
                                  keys \in SUBSET RecordKeys}

\* a raw record read on the first day, not yet migrated
InitMigrate ==
  /\ InitConfig
  /\ InitTasks
  /\ op = "none"
  /\ record \in RawRecords
  /\ migrations = <<>>
  /\ exported = <<>>
  /\ exit_code = Running
  /\ printed = <<>>
  /\ timer = IdleTimer
  /\ intervals = {}
  /\ clock = 0
  /\ Unmounted

\* migrate_legacy_task on the record, then on the result of the last
\* migration, datetime.now() being the instant of today
Migrate ==
  /\ Len(migrations) < MaxMigrations
  /\ migrations' =
       Append(migrations,
              migrate_legacy_task(
                IF migrations = <<>> THEN record
                ELSE migrations[Len(migrations)], today))
  /\ UNCHANGED <<cvars, op, tvars, record, exported, exit_code, printed, timer,
                 intervals, clock, refresh_timer, callbacks, mounted>>

\* the clock advances between two migrations
NextDay ==
  /\ today <= MaxMigrations
  /\ today' = today + 1
  /\ UNCHANGED <<cvars, op, xvars, disk, tasks_file, tasks, selected_index,
                 screen, posted, raised, call, returned>>

NextMigrate ==
  \/ Migrate
  \/ NextDay

SpecMigrate == InitMigrate /\ [][NextMigrate]_vars

(***************************************************************************)
(* Discovery of the configuration file and the validate-and-exit mode      *)
(* (loader.py, main.py), over every state of the candidate files           *)
(***************************************************************************)
\* what validate_config_file prints when no file is found
NoFileFound ==
  <<"No configuration file found.", "Searched locations:",
    "./.devdash.toml (current directory)", "~/.config/devdash/config.toml",
    "~/.devdash.toml", "Tip: Generate an example config">>

\* validate_config_file(config_path): [exit_code, printed, loaded, checked]
validate_config_file(config_path) ==
  LET file_to_validate == IF config_path # "none" THEN config_path
                          ELSE FindConfigFile
      config == LoadConfig(file_to_validate)
      warnings == ValidateConfig(config.config)
  IN IF file_to_validate = "none"
     THEN [exit_code |-> 1, printed |-> NoFileFound, loaded |-> NotLoaded,
           checked |-> NotChecked]
     ELSE IF config.exc = "ConfigLoadError"
     THEN [exit_code |-> 1,
           printed |-> <<"Validating", "Configuration error">>,
           loaded |-> config, checked |-> NotChecked]
     ELSE IF config.exc # "none"
     THEN [exit_code |-> 1,
           printed |-> <<"Validating", "Unexpected error">>,
           loaded |-> config, checked |-> NotChecked]
     ELSE IF warnings.exc # "none"
     THEN [exit_code |-> 1,
           printed |-> <<"Validating", "TOML syntax is valid",
                         "Unexpected error">>,
           loaded |-> config,
           checked |-> [done |-> TRUE, exc |-> warnings.exc,
                        warnings |-> <<>>]]
     ELSE IF warnings.warnings # <<>>
     THEN [exit_code |-> 1,
           printed |-> <<"Validating", "TOML syntax is valid",
                         "Found warning(s)",
                         "Configuration will use default values">>,
           loaded |-> config,
           checked |-> [done |-> TRUE, exc |-> "none",
                        warnings |-> warnings.warnings]]
     ELSE [exit_code |-> 0,
           printed |-> <<"Validating", "TOML syntax is valid",
                         "All configuration values are valid",
                         "Configuration is valid!">>,
           loaded |-> config,
           checked |-> [done |-> TRUE, exc |-> "none", warnings |-> <<>>]]

\* cli() with --validate-config, with and without --config
CallValidateConfigFile ==
  \E config_path \in {"none", "custom"} :
    LET result == validate_config_file(config_path)
    IN /\ op = "none"
       /\ TomlExpressible(doc)
       /\ op' = "validate_config_file"
       /\ arg' = config_path
       /\ loaded' = result.loaded
       /\ checked' = result.checked
       /\ exit_code' = result.exit_code
       /\ printed' = result.printed
       /\ UNCHANGED <<fs, doc, app, panels, tvars, record, migrations,
                      exported, timer, intervals, clock, refresh_timer,
                      callbacks, mounted>>

\* the documents the files hold: nothing, a valid value, a value out of
\* range, a value of another type, a value that is no number, a section
\* that is no table
DiscoveryDocs ==
  {EmptyDoc,
   [sec \in {"timer"} |-> TableV([f \in {"focus_duration"} |-> IntV(50)])],
   [sec \in {"git"} |-> TableV([f \in {"refresh_interval"} |-> IntV(0)])],
   [sec \in {"system"} |->
      TableV([f \in {"cpu_warning_threshold"} |-> StrV("five")])],
   [sec \in {"git"} |-> TableV([f \in {"refresh_interval"} |-> NaNV])],
   [sec \in {"git"} |-> ScalarV(IntV(5))]}

\* every candidate path and the explicit path in every state
InitDiscovery ==
  /\ InitRest
  /\ InitTasks
  /\ fs \in [Locations -> FileStates]
  /\ doc \in DiscoveryDocs
  /\ op = "none"
  /\ arg = "none"
  /\ loaded = NotLoaded
  /\ checked = NotChecked
  /\ app = NotStarted
  /\ panels = NoPanels

NextDiscovery ==
  \/ CallLoadConfig
  \/ CallValidateConfigFile

SpecDiscovery == InitDiscovery /\ [][NextDiscovery]_vars

(***************************************************************************)
(* Properties of the loader                                                *)
(***************************************************************************)
\* the runtime types a declared type is documented to accept
Accepts(declared) ==
  CASE declared = "bool" -> {"bool"}
    [] declared = "int" -> {"int"}
    [] declared = "float" -> {"int", "float", "nan"}
    [] declared = "str" -> {"str"}
    [] declared = "optional_str" -> {"str", "null"}

\* the operation merged doc: _merge_config was called on it, or load_config
\* or cli read it from the explicit path or from the first candidate
DocMerged ==
  \/ op = "merge_config"
  \/ /\ op \in {"load_config", "cli"}
     /\ \/ arg = "custom" /\ fs["custom"] = "ok"
        \/ arg = "none" /\ fs["cwd"] = "ok"

\* every section of the document is a table
AllTables(d) == \A sec \in DOMAIN d \cap Sections : d[sec].k = "table"

Supplied(sec) == DOMAIN doc[sec].t \cap Fields(sec)

\* C1: merging a document whose sections are tables succeeds; in a section
\* of the document every omitted field has its schema default and every
\* field supplied with a type-compatible value has the supplied value; a
\* section absent from the document equals the default section.
C1_MergeKeepsSuppliedAndDefaults ==
  (DocMerged /\ AllTables(doc)) =>
    /\ loaded.exc = "none"
    /\ \A sec \in Sections :
         IF sec \in DOMAIN doc
         THEN \A f \in Fields(sec) :
                /\ f \notin DOMAIN doc[sec].t =>
                     loaded.config[sec][f] = GetDefaultConfig[sec][f]
                /\ (/\ f \in DOMAIN doc[sec].t
                    /\ doc[sec].t[f].k \in Accepts(SectionTypes[sec][f])) =>
                     loaded.config[sec][f] = doc[sec].t[f]
         ELSE loaded.config[sec] = GetDefaultConfig[sec]

\* {git: {refresh_interval: 15}} gives 15, max_commits 3, focus_duration 25
C1_Witness ==
  /\ DocMerged
  /\ DOMAIN doc = {"git"}
  /\ doc["git"].k = "table"
  /\ DOMAIN doc["git"].t = {"refresh_interval"}
  /\ doc["git"].t["refresh_interval"] = IntV(15)
  /\ loaded.exc = "none"
  /\ loaded.config["git"]["refresh_interval"] = IntV(15)
  /\ loaded.config["git"]["max_commits"] = IntV(3)
  /\ loaded.config["timer"]["focus_duration"] = IntV(25)

\* C2: a field supplied with a type-incompatible value raises no error and
\* is merged as its default, and every sibling field of the section has the
\* value it has without the bad field: the supplied value when it is
\* compatible, the default otherwise.
C2_BadFieldFallsBackAlone ==
  (DocMerged /\ AllTables(doc)) =>
    \A sec \in DOMAIN doc \cap Sections : \A f \in Supplied(sec) :
      doc[sec].t[f].k \notin Accepts(SectionTypes[sec][f]) =>
        /\ loaded.exc = "none"
        /\ loaded.config[sec][f] = GetDefaultConfig[sec][f]
        /\ \A g \in Fields(sec) \ {f} :
             loaded.config[sec][g] =
               IF /\ g \in DOMAIN doc[sec].t
                  /\ doc[sec].t[g].k \in Accepts(SectionTypes[sec][g])
               THEN doc[sec].t[g]
               ELSE GetDefaultConfig[sec][g]

\* refresh_interval = "five" beside enabled = false
C2_Witness ==
  /\ DocMerged
  /\ "git" \in DOMAIN doc
  /\ doc["git"].k = "table"
  /\ DOMAIN doc["git"].t = {"refresh_interval", "enabled"}
  /\ doc["git"].t["refresh_interval"] = StrV("five")
  /\ doc["git"].t["enabled"] = BoolV(FALSE)
  /\ loaded.exc = "none"
  /\ loaded.config["git"]["refresh_interval"] = IntV(5)
  /\ loaded.config["git"]["enabled"] = BoolV(FALSE)

\* C3: when a section name of the document maps to a value that is not a
\* table, the merge raises no error, the merged configuration holds the
\* default section for that name, and the application starts.
C3_NonTableSectionFallsBack ==
  (DocMerged /\ ~AllTables(doc)) =>
    /\ loaded.exc = "none"
    /\ \A sec \in DOMAIN doc \cap Sections :
         doc[sec].k # "table" => loaded.config[sec] = GetDefaultConfig[sec]
    /\ op = "cli" => app.state = "running"

\* C4: a supplied field is taken from the document exactly when its runtime
\* type is one its declared type accepts: bool only for bool, int (never
\* bool) for int, int and float (never bool) for float, str for str, str or
\* null for an optional string.
C4_TypeCompatibilityRule ==
  (DocMerged /\ AllTables(doc)) =>
    \A sec \in DOMAIN doc \cap Sections : \A f \in Supplied(sec) :
      LET value == doc[sec].t[f]
          declared == SectionTypes[sec][f]
          taken == loaded.config[sec][f] = value
      IN /\ loaded.exc = "none"
         /\ declared = "bool" => (taken <=> value.k = "bool")
         /\ declared = "int" => (taken <=> value.k = "int")
         /\ declared = "float" => (taken <=> value.k \in {"int", "float", "nan"})
         /\ declared = "str" => (taken <=> value.k = "str")
         /\ declared = "optional_str" => (taken <=> value.k \in {"str", "null"})

\* a whole number taken for a float field beside a boolean refused for an
\* integer field
C4_Witness ==
  /\ DocMerged
  /\ DOMAIN doc = {"git", "system"}
  /\ doc["git"].k = "table" /\ doc["system"].k = "table"
  /\ "refresh_interval" \in DOMAIN doc["git"].t
  /\ "cpu_warning_threshold" \in DOMAIN doc["system"].t
  /\ doc["git"].t["refresh_interval"] = BoolV(FALSE)
  /\ doc["system"].t["cpu_warning_threshold"] = IntV(15)
  /\ loaded.exc = "none"
  /\ loaded.config["git"]["refresh_interval"] = IntV(5)
  /\ loaded.config["system"]["cpu_warning_threshold"] = IntV(15)

\* the first candidate path that is a file
Discovered ==
  IF fs["cwd"] \in {"unreadable", "badsyntax", "ok"} THEN "cwd"
  ELSE IF fs["xdg"] \in {"unreadable", "badsyntax", "ok"} THEN "xdg"
  ELSE IF fs["home"] \in {"unreadable", "badsyntax", "ok"} THEN "home"
  ELSE "none"

\* C5: with an explicit path load_config opens exactly that path without
\* running the discovery and raises ConfigLoadError when the path is absent,
\* unreadable or malformed; without one it returns the defaults with no
\* error and no file opened exactly when the discovery finds no file, and
\* raises ConfigLoadError for a discovered file that fails to load.
C5_LoadFailureNeverDowngraded ==
  op = "load_config" =>
    IF arg # "none"
    THEN /\ ~loaded.discovery
         /\ loaded.path = arg
         /\ fs[arg] # "ok" =>
              loaded.exc = "ConfigLoadError" /\ loaded.config = NoConfig
    ELSE /\ loaded.discovery
         /\ loaded.path = Discovered
         /\ Discovered = "none" <=> (loaded.exc = "none" /\ loaded.path = "none")
         /\ Discovered = "none" => loaded.config = GetDefaultConfig
         /\ (Discovered # "none" /\ fs[Discovered] # "ok") =>
              loaded.exc = "ConfigLoadError" /\ loaded.config = NoConfig

\* a malformed file found by the discovery
C5_Witness ==
  /\ op = "load_config"
  /\ arg = "none"
  /\ fs["cwd"] = "absent"
  /\ fs["xdg"] = "badsyntax"
  /\ loaded.exc = "ConfigLoadError"
  /\ loaded.msg = "Invalid TOML syntax"

(***************************************************************************)
(* Properties of the validator                                             *)
(***************************************************************************)
\* C6: validate_config of the all-default configuration returns no warning.
C6_DefaultsValidateClean ==
  (checked.done /\ loaded.config = GetDefaultConfig) =>
    checked.exc = "none" /\ checked.warnings = <<>>

C6_Witness ==
  /\ op = "load_config"
  /\ checked.done
  /\ loaded.path = "none"
  /\ loaded.config = GetDefaultConfig
  /\ checked.warnings = <<>>

Named(warnings, names) ==
  \E i \in DOMAIN warnings : names \subseteq warnings[i].names

InRange(v, lo, hi) == v.k # "nan" /\ lo * 10 <= Num(v) /\ Num(v) <= hi * 10

\* C7: for each of the three threshold pairs, whenever warning >= critical
\* the validation returns a message that names both fields of the pair,
\* also when a value of the pair is flagged for being outside [0,100].
C7_ThresholdPairFlagged ==
  (checked.done /\ checked.exc = "none") =>
    \A i \in DOMAIN threshold_fields :
      LET warning_val == loaded.config["system"][threshold_fields[i][1]]
          critical_val == loaded.config["system"][threshold_fields[i][2]]
      IN (/\ warning_val.k # "nan"
          /\ critical_val.k # "nan"
          /\ Num(warning_val) >= Num(critical_val)) =>
           Named(checked.warnings,
                 {<<"system", threshold_fields[i][1]>>,
                  <<"system", threshold_fields[i][2]>>})

\* a disk warning threshold of 101 is flagged for its range and for the pair
C7_Witness ==
  /\ checked.done
  /\ checked.exc = "none"
  /\ loaded.config["system"]["disk_warning_threshold"] = FloatV(1010)
  /\ \E i \in DOMAIN checked.warnings :
       /\ checked.warnings[i].names = {<<"system", "disk_warning_threshold">>}
       /\ checked.warnings[i].text = "must be 0-100"
  /\ Named(checked.warnings,
           {<<"system", "disk_warning_threshold">>,
            <<"system", "disk_critical_threshold">>})

\* the constraints of the configuration data model
FullyValid(config) ==
  /\ Num(config.git.refresh_interval) >= 10
  /\ InRange(config.git.max_commits, 0, 20)
  /\ Num(config.system.refresh_interval) >= 5
  /\ \A i \in DOMAIN threshold_fields :
       /\ InRange(config.system[threshold_fields[i][1]], 0, 100)
       /\ InRange(config.system[threshold_fields[i][2]], 0, 100)
       /\ Num(config.system[threshold_fields[i][1]])
            < Num(config.system[threshold_fields[i][2]])
  /\ InRange(config.system.progress_bar_width, 5, 50)
  /\ config.system.progress_bar_style.s \in {"blocks", "bars", "dots"}
  /\ config.tasks.default_sort.s \in {"created", "priority", "due_date", "text"}
  /\ \/ config.tasks.default_priority_filter = NullV
     \/ config.tasks.default_priority_filter.s \in {"high", "medium", "low"}
  /\ InRange(config.tasks.max_visible_tasks, 1, 100)
  /\ InRange(config.tasks.truncate_length, 20, 200)
  /\ InRange(config.tasks.due_soon_days, 1, 30)
  /\ config.tasks.export_format.s \in {"grouped", "simple", "detailed"}
  /\ InRange(config.timer.focus_duration, 1, 240)
  /\ InRange(config.timer.break_duration, 1, 60)
  /\ InRange(config.timer.long_break_duration, 1, 120)
  /\ config.timer.notification_sound.s \in {"bell", "chime", "silent"}
  /\ InRange(config.timer.progress_bar_width, 10, 60)
  /\ config.ui.border_style.s
       \in {"solid", "double", "rounded", "heavy", "none"}
  /\ InRange(config.ui.panel_padding, 0, 5)
  /\ \A a, b \in DOMAIN config.keybindings :
       a # b => config.keybindings[a] # config.keybindings[b]

\* C8: when the validation returns no warning the configuration satisfies
\* every constraint of the data model: ranges, allowed sets, warning below
\* critical, keybindings all distinct.
C8_NoWarningMeansFullyValid ==
  (checked.done /\ checked.exc = "none" /\ checked.warnings = <<>>) =>
    FullyValid(loaded.config)

SameValue(a, b) ==
  IF a.k \in {"bool", "int", "float"} /\ b.k \in {"bool", "int", "float"}
  THEN Num(a) = Num(b)
  ELSE a = b

\* C9: when the validation flags a field and announces a default for it,
\* the application and the panel of the field run with that default.
C9_FlaggedFieldRunsWithDefault ==
  (op = "cli" /\ app.state = "running" /\ checked.done) =>
    \A i \in DOMAIN checked.warnings :
      checked.warnings[i].dflt # NoDefault =>
        \A nm \in checked.warnings[i].names :
          /\ SameValue(app.config[nm[1]][nm[2]], checked.warnings[i].dflt)
          /\ nm[1] \in DOMAIN panels =>
               SameValue(panels[nm[1]].config[nm[2]],
                         checked.warnings[i].dflt)
          /\ nm = <<"timer", "focus_duration">> =>
               panels["timer"].focus_duration
                 = checked.warnings[i].dflt.n * 60

\* C10: validate_config on a configuration whose fields hold values of
\* their declared types returns its warnings without raising and leaves the
\* configuration as it was.
C10_ValidateConfigIsPure ==
  [][(~checked.done /\ checked'.done) =>
       /\ checked'.exc = "none"
       /\ op' = op => loaded' = loaded]_vars

\* an out-of-range configuration has been validated
C10_Witness ==
  /\ op = "load_config"
  /\ checked.done
  /\ checked.exc = "none"
  /\ Len(checked.warnings) > 0
  /\ loaded.config["timer"]["focus_duration"] = IntV(0)

(***************************************************************************)
(* Properties of the tasks panel                                           *)
(***************************************************************************)
\* a priority and a due date the constructor accepts
ValidPriority(value) ==
  value \in {NullV, StrV("high"), StrV("medium"), StrV("low")}
ValidDueDate(value) == value = NullV \/ FromIsoFormat(value).exc = "none"

\* a storage file that exists and does not hold an array of records with
\* recognised priorities and ISO due dates
Malformed(file) ==
  /\ file.exists
  /\ \/ file.content.k # "array"
     \/ \E i \in DOMAIN file.content.items :
          LET item == file.content.items[i]
          IN \/ item.k # "object"
             \/ ~ValidPriority(Get(item.d, "priority", NullV))
             \/ ~ValidDueDate(Get(item.d, "due_date", NullV))

\* C11: Loading the task storage file never propagates a failure: when the
\* panel has been mounted over a malformed storage file (no JSON text, JSON
\* that is no array of records, a record with an unrecognised priority or an
\* unparsable due date), no exception has left load_tasks and the task
\* collection is empty.
C11_MalformedFileLoadsAsNoTasks ==
  (op = "on_mount" /\ interactions_enabled /\ Malformed(disk[tasks_file]))
    => (raised = "none" /\ tasks = <<>>)

\* a modal closes on a confirmation: it has posted its message
Confirmed == screen # NoScreen /\ screen' = NoScreen /\ posted' # None

\* C12: A confirmed modal action takes effect on the task collection: when
\* the edit modal is saved (non-empty text, empty or valid due date) the
\* collection then holds a task with the submitted data under the id of the
\* modal, when a value is picked in the quick-priority modal the selected
\* task then has the picked priority, and in each case the storage file (it
\* can be written) then holds the collection.
C12_ConfirmedModalTakesEffect ==
  [][(Confirmed /\ disk[tasks_file].writable) =>
       /\ posted'.name = "SaveTask" =>
            \E i \in DOMAIN tasks' : to_dict(tasks'[i]) = posted'.task_data
       /\ posted'.name = "SetPriority" =>
            /\ selected_index' + 1 \in DOMAIN tasks'
            /\ tasks'[selected_index' + 1].priority = posted'.priority
       /\ disk'[tasks_file].exists
       /\ disk'[tasks_file].content = ToJson(tasks')]_vars

\* C13: Task mutations are atomic with respect to the save: after a step
\* of the mounted panel (toggle, delete, edit, priority-set) either the
\* storage file holds the new collection or the collection in memory is the
\* one from before the step.
C13_MutationSavedOrUndone ==
  [][op = "on_mount" =>
       \/ /\ disk'[tasks_file].exists
          /\ disk'[tasks_file].content = ToJson(tasks')
       \/ tasks' = tasks]_vars

(***************************************************************************)
(* Properties of the reload                                                *)
(***************************************************************************)
PanelNames == {"git", "system", "tasks", "timer"}

\* C14: Configuration reload is atomic: after reload_config either the
\* application and the four panels hold the newly loaded configuration, or
\* the application and the four panels hold the configuration they held
\* before the reload.
C14_ReloadAllOrNothing ==
  [][op' = "reload_config" =>
       \/ /\ loaded'.exc = "none"
          /\ app'.config = loaded'.config
          /\ \A p \in PanelNames : panels'[p].config = loaded'.config[p]
       \/ /\ app'.config = app.config
          /\ \A p \in PanelNames : panels'[p].config = panels[p].config]_vars

\* C15: The id is unique within the task collection in every reachable
\* state of the tasks panel: no two tasks of the collection share an id.
C15_IdsUnique ==
  \A i \in DOMAIN tasks : \A j \in DOMAIN tasks :
    tasks[i].id = tasks[j].id => i = j

\* every record of a JSON array is a dictionary
AllRecords(content) ==
  /\ content.k = "array"
  /\ \A i \in DOMAIN content.items : content.items[i].k = "object"

ValidRecord(d) ==
  /\ ValidPriority(Get(d, "priority", NullV))
  /\ ValidDueDate(Get(d, "due_date", NullV))

\* C16: Invalid task fields are rejected before persistence: building a
\* task from a record with a priority outside {high, medium, low, null} or
\* with a due date that is no ISO text raises ValueError; every task of the
\* collection, every task data an edit modal submits and, once the panel is
\* mounted over a file it could load, every record of the storage file has a
\* priority in {high, medium, low, null} and a due date that is null or an
\* ISO text.
C16_InvalidFieldsNeverPersisted ==
  LET file == disk[tasks_file]
  IN /\ (/\ op = "on_mount"
         /\ interactions_enabled
         /\ file.exists
         /\ AllRecords(file.content)
         /\ \E i \in DOMAIN file.content.items :
              ~ValidRecord(file.content.items[i].d))
          => raised = "ValueError"
     /\ \A i \in DOMAIN tasks : ValidRecord(to_dict(tasks[i]))
     /\ posted.name = "SaveTask" => ValidRecord(posted.task_data)
     /\ (/\ op = "on_mount"
         /\ raised = "none"
         /\ interactions_enabled
         /\ file.exists
         /\ AllRecords(file.content))
          => \A i \in DOMAIN file.content.items :
               ValidRecord(file.content.items[i].d)

\* a task with a priority and a due date was toggled and written
C16_Witness ==
  /\ op = "on_mount"
  /\ disk[tasks_file].content = ToJson(tasks)
  /\ \E i \in DOMAIN tasks :
       /\ tasks[i].priority = StrV("high")
       /\ tasks[i].due_date = IsoDate(2)
       /\ ~tasks[i].done

(***************************************************************************)
(* Properties of the task queries                                          *)
(***************************************************************************)
\* C17: Priority filtering is by equality and null is never a wildcard:
\* filter(tasks, priority=p) returns only tasks whose priority equals p,
\* also when p is the null value.
C17_FilterByPriorityEquality ==
  call.name = "filter_tasks" =>
    \A i \in DOMAIN returned.tasks :
      returned.tasks[i].priority = call.priority

\* a task meets every criterion of the query c that is active
MeetsCriteria(c, t) ==
  /\ c.show_done \/ ~t.done
  /\ c.priority # NullV => t.priority = c.priority
  /\ c.category # NullV =>
       \E i \in DOMAIN t.categories :
         Lower(t.categories[i]) = Lower(c.category.s)

\* C18: filter is conjunctive and order-preserving: its result is exactly
\* the subsequence of the input, in input order, of the tasks that satisfy
\* every active criterion (not done when show_done is false, priority equal
\* to a given priority, case-insensitive membership of a given category),
\* and the input sequence and its tasks are left unchanged; with show_done
\* false and no other criterion it is exactly the not-done tasks.
C18_FilterIsConjunctiveSubsequence ==
  [][call'.name = "filter_tasks" =>
       /\ returned'.tasks = SelectSeq(tasks, LAMBDA t : MeetsCriteria(call', t))
       /\ tasks' = tasks
       /\ (~call'.show_done /\ call'.priority = NullV /\ call'.category = NullV)
            => returned'.tasks = SelectSeq(tasks, LAMBDA t : ~t.done)]_vars

\* three criteria are active and keep one task of two
C18_Witness ==
  /\ call.name = "filter_tasks"
  /\ ~call.show_done
  /\ call.priority # NullV
  /\ call.category # NullV
  /\ Len(tasks) = 2
  /\ Len(returned.tasks) = 1

\* the place of a priority in the order high, medium, low, none
PriorityRank(t) ==
  CASE t.priority = StrV("high") -> 0
    [] t.priority = StrV("medium") -> 1
    [] t.priority = StrV("low") -> 2
    [] OTHER -> 3

SameKeys(a, b) ==
  PriorityRank(a) = PriorityRank(b) /\ a.created_at = b.created_at

\* C19: sort by priority returns a permutation of the input in which high
\* tasks precede medium tasks, which precede low tasks, which precede tasks
\* with no priority; within one priority tasks are in ascending order of
\* created_at, and tasks equal on both keys keep their input order.
C19_SortByPriorityIsStable ==
  (call.name = "sort_tasks" /\ call.sort_by = "priority") =>
    LET r == returned.tasks
    IN /\ Len(r) = Len(tasks)
       /\ \A i \in DOMAIN r : \A j \in DOMAIN r :
            i < j =>
              \/ PriorityRank(r[i]) < PriorityRank(r[j])
              \/ /\ PriorityRank(r[i]) = PriorityRank(r[j])
                 /\ r[i].created_at.n <= r[j].created_at.n
       /\ \A k \in DOMAIN tasks :
            /\ Cardinality({i \in DOMAIN r : r[i] = tasks[k]})
                 = Cardinality({i \in DOMAIN tasks : tasks[i] = tasks[k]})
            /\ SelectSeq(r, LAMBDA t : SameKeys(t, tasks[k]))
                 = SelectSeq(tasks, LAMBDA t : SameKeys(t, tasks[k]))

\* two tasks of one priority come back in the order of their created_at
C19_Witness ==
  /\ call.name = "sort_tasks"
  /\ call.sort_by = "priority"
  /\ Len(tasks) = 2
  /\ tasks[1].priority = tasks[2].priority
  /\ returned.tasks = <<tasks[2], tasks[1]>>
  /\ tasks[1] # tasks[2]

\* C20: is_overdue and is_due_soon(w) are never both true; is_overdue holds
\* iff the task has a due date, is not done and due < today; is_due_soon(w)
\* holds iff the task has a due date, is not done and 0 <= due - today <= w.
C20_OverdueAndDueSoonExclusive ==
  LET t == tasks[call.index]
      due == t.due_date.n
  IN /\ call.name = "is_overdue" =>
          returned.bool = (t.due_date # NullV /\ ~t.done /\ due < today)
     /\ call.name = "is_due_soon" =>
          /\ returned.bool =
               (/\ t.due_date # NullV
                /\ ~t.done
                /\ 0 <= due - today
                /\ due - today <= call.days)
          /\ ~(returned.bool /\ is_overdue(t, today))

\* a task that is not done and due exactly w days from today is due soon
C20_Witness ==
  /\ call.name = "is_due_soon"
  /\ call.days = 1
  /\ ~tasks[call.index].done
  /\ tasks[call.index].due_date = IsoDate(today + 1)
  /\ returned.bool
  /\ ~is_overdue(tasks[call.index], today)

(***************************************************************************)
(* Properties of the migration                                             *)
(***************************************************************************)
\* C21: migrate_legacy is idempotent: migrating the result of a migration
\* yields the same normalized record as the first migration (created_at is
\* backfilled at most once), and a migration never changes the id, text or
\* done value that the record already had.
C21_MigrationIdempotent ==
  /\ \A i \in DOMAIN migrations : migrations[i] = migrations[1]
  /\ \A i \in DOMAIN migrations :
       \A key \in {"id", "text", "done", "created_at"} \cap DOMAIN record :
         migrations[i][key] = record[key]

\* a legacy record without created_at was migrated twice on different days
C21_Witness ==
  /\ Len(migrations) >= 2
  /\ DOMAIN record = {"id", "text", "done"}
  /\ today > migrations[1].created_at.n

(***************************************************************************)
(* Properties of the export                                                *)
(***************************************************************************)
\* the priorities in the order of the sections, and the section titles
SectionOrder == <<StrV("high"), StrV("medium"), StrV("low"), NullV>>
SectionHeadings ==
  <<"High Priority", "Medium Priority", "Low Priority", "No Priority">>

\* the tasks of the k-th priority, in input order
GroupOf(k) == SelectSeq(tasks, LAMBDA t : t.priority = SectionOrder[k])

\* the lines at which the section of the k-th priority starts
SectionStarts(k) ==
  {i \in DOMAIN exported :
     exported[i].kind = "section" /\ exported[i].text = SectionHeadings[k]}

\* the lines of the section that starts at line i: up to the next section
SectionSpan(i) ==
  {j \in DOMAIN exported :
     /\ j > i
     /\ \A h \in DOMAIN exported :
          (h > i /\ h <= j) => exported[h].kind # "section"}

RECURSIVE SumOver(_, _)
SumOver(f, set) ==
  IF set = {} THEN 0
  ELSE LET x == CHOOSE x \in set : TRUE
       IN f[x] + SumOver(f, set \ {x})

\* C22: the grouped export partitions the tasks by priority: sections
\* appear in the fixed order High, Medium, Low, None with empty groups
\* omitted (an empty task list yields the header with "Total tasks: 0" and
\* no section), every task is listed in exactly one section, and each
\* section's task count and completed count are the number of tasks and of
\* done tasks of that priority, summing to the header's totals.
C22_GroupedExportPartitions ==
  call.name = "export_to_markdown" =>
    LET present == {k \in DOMAIN SectionOrder : GroupOf(k) # <<>>}
        start == [k \in present |-> CHOOSE i \in SectionStarts(k) : TRUE]
    IN /\ Len(exported) >= 8
       /\ exported[5].kind = "totals"
       /\ exported[5].n = Len(tasks)
       /\ exported[5].m = Completed(tasks)
       /\ tasks = <<>> =>
            Len(exported) = 8 /\ exported[5].n = 0
       /\ \A k \in DOMAIN SectionOrder :
            Cardinality(SectionStarts(k)) = IF k \in present THEN 1 ELSE 0
       /\ Cardinality({i \in DOMAIN exported : exported[i].kind = "section"})
            = Cardinality(present)
       /\ \A a \in present : \A b \in present : a < b => start[a] < start[b]
       /\ \A k \in present :
            /\ exported[start[k] + 2].kind = "counts"
            /\ exported[start[k] + 2].n = Len(GroupOf(k))
            /\ exported[start[k] + 2].m = Completed(GroupOf(k))
            /\ \A g \in DOMAIN GroupOf(k) :
                 LET line == GroupedTaskLine(GroupOf(k)[g], today)
                 IN Cardinality({j \in SectionSpan(start[k]) :
                                   exported[j] = line})
                      = Cardinality({h \in DOMAIN GroupOf(k) :
                          GroupedTaskLine(GroupOf(k)[h], today) = line})
            /\ Cardinality({j \in SectionSpan(start[k]) :
                              exported[j].kind = "task"}) = Len(GroupOf(k))
       /\ Cardinality({j \in DOMAIN exported : exported[j].kind = "task"})
            = Len(tasks)
       /\ SumOver([k \in present |-> exported[start[k] + 2].n], present)
            = exported[5].n
       /\ SumOver([k \in present |-> exported[start[k] + 2].m], present)
            = exported[5].m

\* a task without priority before a done high task: two sections, the high
\* one first, one of its tasks completed
C22_Witness ==
  /\ call.name = "export_to_markdown"
  /\ Len(tasks) = 2
  /\ tasks[1].priority = NullV
  /\ tasks[2].priority = StrV("high")
  /\ tasks[2].done
  /\ Cardinality({i \in DOMAIN exported : exported[i].kind = "section"}) = 2

(***************************************************************************)
(* Properties of the discovery and of the validate-and-exit mode           *)
(***************************************************************************)
\* a candidate path holds a file (a directory of that name is no file)
CandidateExists(i) == fs[Candidates[i]] \notin {"absent", "dir"}

\* C23: discovery returns the first existing candidate in the fixed order
\* (1) .devdash.toml in the working directory, (2) devdash/config.toml in
\* the user config directory, (3) .devdash.toml in the home directory, for
\* every combination of existing candidates, and "no file found" exactly
\* when none exists.
C23_DiscoveryFirstMatchWins ==
  (op = "load_config" /\ arg = "none") =>
    /\ Candidates = <<"cwd", "xdg", "home">>
    /\ loaded.path = "none" <=> \A i \in 1..3 : ~CandidateExists(i)
    /\ \A i \in 1..3 :
         loaded.path = Candidates[i] <=>
           (CandidateExists(i) /\ \A j \in 1..(i - 1) : ~CandidateExists(j))

\* the second and the third candidate exist, the first does not
C23_Witness ==
  /\ op = "load_config"
  /\ arg = "none"
  /\ ~CandidateExists(1)
  /\ CandidateExists(2)
  /\ CandidateExists(3)
  /\ loaded.path = "xdg"

\* the configuration the loader resolves for the validate mode's argument,
\* and whether validating it gives no warning
ResolvedForValidation == LoadConfig(arg)
NoWarnings ==
  /\ ResolvedForValidation.exc = "none"
  /\ ValidateConfig(ResolvedForValidation.config).exc = "none"
  /\ ValidateConfig(ResolvedForValidation.config).warnings = <<>>

\* C24: the validate-config-and-exit mode returns exit code 0 if validating
\* the resolved configuration yields no warnings and exit code 1 otherwise;
\* when discovery yields no file it prints the fixed "no file found"
\* message.
C24_ExitCodeTellsWarnings ==
  op = "validate_config_file" =>
    /\ exit_code = IF NoWarnings THEN 0 ELSE 1
    /\ (arg = "none" /\ \A i \in 1..3 : ~CandidateExists(i))
         => printed = NoFileFound

(***************************************************************************)
(* Properties of the timer panel                                           *)
(***************************************************************************)
\* the length of the session the panel is in
SessionTotal ==
  IF timer.state = "focus" THEN panels.timer.focus_duration
  ELSE panels.timer.break_duration

\* C25: the progress computation is total: the percentage is
\* remaining/total*100 when total > 0 and 0 when total is 0, so building
\* the progress bar of a running focus or break session never fails, also
\* when the configured duration of the session is 0.
C25_ProgressIsTotal ==
  /\ raised # "ZeroDivisionError"
  /\ (/\ call.name \in {"action_start_focus", "action_start_break",
                        "update_timer", "update_config"}
      /\ timer.state # "idle"
      /\ TimerEnabled(panels.timer)
      /\ panels.timer.config.show_progress_bar = BoolV(TRUE))
       => /\ timer.timer_content.bar
          /\ timer.timer_content.percentage =
               IF SessionTotal > 0
               THEN (timer.remaining_seconds * 100) \div SessionTotal
               ELSE 0

\* C26: with the timer enabled, from any of the states IDLE, FOCUS, BREAK
\* start-focus leads to FOCUS, start-break to BREAK and stop to IDLE;
\* stopping is immediate and synchronous: right after stop the state is
\* IDLE, remaining_seconds is 0 and no periodic update callback remains
\* registered, so no later tick changes the state.
C26_TimerTransitions ==
  /\ TimerEnabled(panels.timer) =>
       /\ call.name = "action_start_focus" => timer.state = "focus"
       /\ call.name = "action_start_break" => timer.state = "break"
       /\ call.name = "action_stop_timer" =>
            /\ timer.state = "idle"
            /\ timer.remaining_seconds = 0
            /\ timer.update_timer_handle = 0
            /\ intervals = {}
  /\ timer.state = "idle" => intervals = {}

\* a session was stopped after time had passed
C26_Witness ==
  /\ TimerEnabled(panels.timer)
  /\ call.name = "action_stop_timer"
  /\ clock > 0
  /\ timer.state = "idle"
  /\ timer.timer_content.state = "idle"

\* a session runs and no exception has ended the application
SessionRuns == timer.state # "idle" /\ raised = "none"

\* C27: a started focus or break session that the user neither stops nor
\* restarts eventually ends: while the session runs a tick is registered,
\* remaining_seconds never increases from one tick to the next, and once
\* the clock has reached end_time the next tick sets the state to IDLE with
\* remaining_seconds 0 and unregisters the tick (ticks are scheduled fairly
\* and the clock advances).
C27_SessionEventuallyEnds ==
  /\ [](SessionRuns => timer.update_timer_handle \in intervals)
  /\ [][Tick => timer'.remaining_seconds <= timer.remaining_seconds]_vars
  /\ [][(Tick /\ timer.state # "idle" /\ clock >= timer.end_time) =>
          /\ timer'.state = "idle"
          /\ timer'.remaining_seconds = 0
          /\ intervals' = {}]_vars
  /\ SessionRuns ~> (timer.state = "idle" \/ raised # "none")

\* a tick has ended a session of one minute
C27_Witness ==
  /\ call.name = "update_timer"
  /\ timer.state = "idle"
  /\ clock >= 60
  /\ panels.timer.focus_duration = 60
  /\ raised = "none"

(***************************************************************************)
(* Properties of the periodic refresh                                      *)
(***************************************************************************)
\* the refresh callbacks a panel has registered
CallbacksOf(p) == {cb \in callbacks : cb.owner = p}

\* a mounted panel has one callback, at its refresh_interval, while it is
\* switched on, and none while it is switched off
OneCallback(p) ==
  p \in mounted =>
    IF PanelEnabled(panels[p].config)
    THEN /\ Cardinality(CallbacksOf(p)) = 1
         /\ \A cb \in CallbacksOf(p) :
              cb.interval = panels[p].config.refresh_interval
    ELSE CallbacksOf(p) = {}

\* C28: after mount and after any sequence of update_config calls, the Git
\* panel and the System panel each have exactly one periodic refresh
\* callback registered, at the configured refresh_interval, while enabled,
\* and none while disabled
C28_OneRefreshCallback == OneCallback("git") /\ OneCallback("system")

\* the Git panel's half of C28, which the code keeps
GitPanelHasOneCallback == OneCallback("git")

(***************************************************************************)
(* Properties of the selection of the tasks panel                          *)
(***************************************************************************)
\* the tasks the mounted panel displays
Displayed ==
  IF op \in {"none", "cli"} \/ ~interactions_enabled THEN <<>>
  ELSE get_filtered_sorted_tasks(panels.tasks, tasks)

\* the filters of the panel, as criteria
ActiveFilters ==
  [show_done |-> panels.tasks.show_done = BoolV(TRUE),
   priority |-> panels.tasks.current_filter_priority,
   category |-> panels.tasks.current_filter_category]

\* C29: whenever the displayed (filtered) list of the tasks panel is
\* non-empty, selected_index is a valid index of the task collection and the
\* task it designates passes the active filters
C29_SelectionIsDisplayed ==
  (raised = "none" /\ Displayed # <<>>) =>
    /\ HasSelection
    /\ MeetsCriteria(ActiveFilters, tasks[Selected])

(***************************************************************************)
(* Properties of the configuration editor                                  *)
(***************************************************************************)
\* Python's == on two values: numbers by their value, nan equal to nothing
ValueEquals(a, b) ==
  IF a.k \in NumKinds /\ b.k \in NumKinds
  THEN a.k # "nan" /\ b.k # "nan" /\ Num(a) = Num(b)
  ELSE a = b

\* two configurations are equal field for field in every section
ConfigEquals(a, b) ==
  \A sec \in Sections : \A f \in Fields(sec) : ValueEquals(a[sec][f], b[sec][f])

\* C30: saving the configuration editor without changing a field is a no-op
\* on the resolved configuration: the configuration obtained by reloading the
\* file the editor wrote equals, field for field in every section, the
\* configuration the editor was opened with
C30_SaveUnchangedIsNoOp ==
  [][(Dismissed /\ op' = "reload_config") =>
       /\ loaded'.exc = "none"
       /\ ConfigEquals(loaded'.config, app.config)]_vars

====
